---- MODULE Spec2Model ----
(***************************************************************************)
(* Model of the SQL statement splitter of bit2 (splitSqlStatements in      *)
(* src/commands/new.js, duplicated in the first-deploy setupTursoDatabase).*)
(* A script is a sequence of one-character strings.                        *)
(***************************************************************************)
EXTENDS Integers, Sequences, FiniteSets, TLC

(* ------------------------------ bounds -------------------------------- *)

\* longest enumerated input script
MaxLen == 5

\* characters the enumerated scripts are made of
Alphabet == {"a", ";", "'", "\"", " ", "\n", "-"}

\* the scripts of the spec's examples and of the repository's tests, abridged
\* to the characters that matter to the splitter
Examples ==
    { <<"I", " ", "(", "'", "a", ";", "b", "'", ")", ";">>,
      <<"I", " ", "(", "'", "i", "t", "'", "'", "s", " ", "o", "k", "'", ")", ";">>,
      <<"A", ";", "\n", "B">>,
      <<"-", "-", " ", "c", "\n", "A", ";", "\n", "-", "-", " ", "c", "2", "\n", "B", ";">>,
      <<"-", "-", " ", "j", "u", "s", "t", "\n">>,
      <<"C", " ", "t", " ", "(", "i", ")", ";">>,
      <<"\n", " ", "C", " ", "u", ";", "\n", " ", "\n", " ", "\n", " ", "I", " ", "u", ";", "\n", " ">>,
      <<"C", " ", "\n", "-", "-", "x", "\n", " ", "\n", "(", "i", ")", ";", "'", "x", ";">> }

RECURSIVE SeqsUpTo(_)
SeqsUpTo(n) ==
    IF n = 0 THEN { <<>> }
    ELSE LET shorter == SeqsUpTo(n - 1)
         IN  shorter \cup { Append(s, c) : s \in { t \in shorter : Len(t) = n - 1 }, c \in Alphabet }

Scripts == SeqsUpTo(MaxLen) \cup Examples

(* --------------------------- string helpers --------------------------- *)

\* IsWhitespace of a trim that does not know the carriage return
IsWhitespace_NoCarriageReturn(c) == c \in {" ", "\n", "\t"}

\* String.prototype.trim: the characters it strips
IsWhitespace(c) == c \in {" ", "\n", "\r", "\t"}

RECURSIVE TrimStart(_)
TrimStart(s) ==
    IF s = <<>> THEN <<>>
    ELSE IF IsWhitespace(Head(s)) THEN TrimStart(Tail(s))
    ELSE s

RECURSIVE TrimEnd(_)
TrimEnd(s) ==
    IF s = <<>> THEN <<>>
    ELSE IF IsWhitespace(s[Len(s)]) THEN TrimEnd(SubSeq(s, 1, Len(s) - 1))
    ELSE s

\* String.prototype.trim
Trim(s) == TrimEnd(TrimStart(s))

\* line.trim().startsWith('--')
StartsWithDashes(s) == Len(s) >= 2 /\ s[1] = "-" /\ s[2] = "-"

\* String.prototype.split with a one-character separator: always at least
\* one piece, the empty string gives ['']
RECURSIVE SplitOn(_, _)
SplitOn(s, sep) ==
    IF \A k \in 1..Len(s) : s[k] # sep THEN << s >>
    ELSE LET p == CHOOSE k \in 1..Len(s) :
                      s[k] = sep /\ \A j \in 1..(k - 1) : s[j] # sep
         IN  << SubSeq(s, 1, p - 1) >> \o SplitOn(SubSeq(s, p + 1, Len(s)), sep)

\* sql.split('\n')
SplitLines(s) == SplitOn(s, "\n")

\* cleanLines.join('\n')
RECURSIVE JoinLines(_)
JoinLines(ls) ==
    IF ls = <<>> THEN <<>>
    ELSE IF Len(ls) = 1 THEN ls[1]
    ELSE ls[1] \o <<"\n">> \o JoinLines(Tail(ls))

\* KeepLine with includes('--') in place of startsWith('--')
KeepLine_Includes(line) ==
    /\ \A k \in 1..(Len(line) - 1) : ~(line[k] = "-" /\ line[k + 1] = "-")
    /\ Trim(line) # <<>>

\* KeepLine without the test for blank lines
KeepLine_KeepsBlank(line) == ~StartsWithDashes(Trim(line))

\* KeepLine with the comment test on the untrimmed line
KeepLine_Untrimmed(line) == ~StartsWithDashes(line) /\ Trim(line) # <<>>

\* the predicate of lines.filter(...)
KeepLine(line) == ~StartsWithDashes(Trim(line)) /\ Trim(line) # <<>>

\* lines.filter(...)
RECURSIVE FilterLines(_)
FilterLines(ls) ==
    IF ls = <<>> THEN <<>>
    ELSE IF KeepLine(Head(ls)) THEN << Head(ls) >> \o FilterLines(Tail(ls))
    ELSE FilterLines(Tail(ls))

\* the first three lines of splitSqlStatements
CleanSql(sql) == JoinLines(FilterLines(SplitLines(sql)))

(* ------------------------- conditions of the scan ---------------------- *)
\* positions are 1-based here: the code's cleanSql[i] is clean[i + 1]

\* char === "'" && !inDoubleQuotes, with the look-ahead for a doubled quote
IsEscapedQuote(clean, i, inD) ==
    /\ clean[i + 1] = "'"
    /\ ~inD
    /\ i + 1 < Len(clean)
    /\ clean[i + 2] = "'"

\* char === "'" && !inDoubleQuotes, not doubled
IsSingleQuoteToggle(clean, i, inD) ==
    /\ clean[i + 1] = "'"
    /\ ~inD
    /\ ~(i + 1 < Len(clean) /\ clean[i + 2] = "'")

\* IsDoubleQuoteToggle without the test of inSingleQuotes
IsDoubleQuoteToggle_AnyQuoteState(clean, i, inS, inD) ==
    /\ ~(clean[i + 1] = "'" /\ ~inD)
    /\ clean[i + 1] = "\""

\* char === '"' && !inSingleQuotes
IsDoubleQuoteToggle(clean, i, inS, inD) ==
    /\ ~(clean[i + 1] = "'" /\ ~inD)
    /\ clean[i + 1] = "\""
    /\ ~inS

\* IsStatementEnd without the test of inDoubleQuotes
IsStatementEnd_IgnoresDouble(clean, i, inS, inD) ==
    /\ ~(clean[i + 1] = "'" /\ ~inD)
    /\ ~(clean[i + 1] = "\"" /\ ~inS)
    /\ clean[i + 1] = ";"
    /\ ~inS

\* IsStatementEnd without the quote flags
IsStatementEnd_AnyQuoteState(clean, i, inS, inD) ==
    /\ ~(clean[i + 1] = "'" /\ ~inD)
    /\ ~(clean[i + 1] = "\"" /\ ~inS)
    /\ clean[i + 1] = ";"

\* char === ';' && !inSingleQuotes && !inDoubleQuotes
IsStatementEnd(clean, i, inS, inD) ==
    /\ ~(clean[i + 1] = "'" /\ ~inD)
    /\ ~(clean[i + 1] = "\"" /\ ~inS)
    /\ clean[i + 1] = ";"
    /\ ~inS
    /\ ~inD

\* AppendEscaped copying one quote of the two
AppendEscaped_OneQuote(cur) == Append(cur, "'")

\* currentStatement += "''"
AppendEscaped(cur) == cur \o <<"'", "'">>

\* PushTrimmed skipping a statement that is already in the list
PushTrimmed_Dedup(stmts, cur) ==
    IF Len(Trim(cur)) > 0 /\ \A k \in 1..Len(stmts) : stmts[k] # Trim(cur)
    THEN Append(stmts, Trim(cur)) ELSE stmts

\* PushTrimmed pushing the buffer as it is
PushTrimmed_Untrimmed(stmts, cur) ==
    IF Len(Trim(cur)) > 0 THEN Append(stmts, cur) ELSE stmts

\* const stmt = currentStatement.trim(); if (stmt.length > 0) statements.push(stmt)
PushTrimmed(stmts, cur) ==
    IF Len(Trim(cur)) > 0 THEN Append(stmts, Trim(cur)) ELSE stmts

(* ------------------------------ the state ----------------------------- *)

VARIABLES
    pc,                 \* "call", "scan" or "done"
    sql,                \* the argument
    cleanSql,           \* the script without blank and comment lines
    statements,
    currentStatement,
    inSingleQuotes,
    inDoubleQuotes,
    i,
    calls,              \* the local state of each of several invocations of the splitter
    proc,               \* the local state of the command that runs (its position and locals)
    world,              \* the files and cloud resources the commands act on
    execLog,            \* the external commands and file operations started so far
    stdout,             \* the messages printed so far
    exitCode            \* "running", or the exit code of the process

\* the state of one splitter invocation
splitVars == << pc, sql, cleanSql, statements, currentStatement,
                inSingleQuotes, inDoubleQuotes, i >>

\* the state of the commands around it
cmdVars == << calls, proc, world, execLog, stdout, exitCode >>

vars == << pc, sql, cleanSql, statements, currentStatement,
           inSingleQuotes, inDoubleQuotes, i,
           calls, proc, world, execLog, stdout, exitCode >>

\* no command runs
CmdIdle ==
    /\ calls = <<>>
    /\ proc = [ pc |-> "idle" ]
    /\ world = [ none |-> TRUE ]
    /\ execLog = <<>>
    /\ stdout = <<>>
    /\ exitCode = "running"

\* no splitter invocation is followed step by step
SplitIdle ==
    /\ pc = "idle"
    /\ sql = <<>>
    /\ cleanSql = <<>>
    /\ statements = <<>>
    /\ currentStatement = <<>>
    /\ inSingleQuotes = FALSE
    /\ inDoubleQuotes = FALSE
    /\ i = 0

Init ==
    /\ pc = "call"
    /\ sql \in Scripts
    /\ cleanSql = <<>>
    /\ statements = <<>>
    /\ currentStatement = <<>>
    /\ inSingleQuotes = FALSE
    /\ inDoubleQuotes = FALSE
    /\ i = 0
    /\ CmdIdle

\* lines 113-121: clean the script and initialise the scan
Clean ==
    /\ pc = "call"
    /\ cleanSql' = CleanSql(sql)
    /\ statements' = <<>>
    /\ currentStatement' = <<>>
    /\ inSingleQuotes' = FALSE
    /\ inDoubleQuotes' = FALSE
    /\ i' = 0
    /\ pc' = "scan"
    /\ UNCHANGED sql
    /\ UNCHANGED cmdVars

\* ScanEscapedQuote advancing by one position only
ScanEscapedQuote_AdvanceOne ==
    /\ pc = "scan"
    /\ i < Len(cleanSql)
    /\ IsEscapedQuote(cleanSql, i, inDoubleQuotes)
    /\ currentStatement' = AppendEscaped(currentStatement)
    /\ i' = i + 1
    /\ UNCHANGED << pc, sql, cleanSql, statements, inSingleQuotes, inDoubleQuotes >>
    /\ UNCHANGED cmdVars

\* ScanEscapedQuote toggling inSingleQuotes once for the two quotes
ScanEscapedQuote_TogglesOnce ==
    /\ pc = "scan"
    /\ i < Len(cleanSql)
    /\ IsEscapedQuote(cleanSql, i, inDoubleQuotes)
    /\ currentStatement' = AppendEscaped(currentStatement)
    /\ inSingleQuotes' = ~inSingleQuotes
    /\ i' = i + 2
    /\ UNCHANGED << pc, sql, cleanSql, statements, inDoubleQuotes >>
    /\ UNCHANGED cmdVars

\* lines 128-132: a doubled single quote
ScanEscapedQuote ==
    /\ pc = "scan"
    /\ i < Len(cleanSql)
    /\ IsEscapedQuote(cleanSql, i, inDoubleQuotes)
    /\ currentStatement' = AppendEscaped(currentStatement)
    /\ i' = i + 2
    /\ UNCHANGED << pc, sql, cleanSql, statements, inSingleQuotes, inDoubleQuotes >>
    /\ UNCHANGED cmdVars

\* line 133, then 147-148
ScanSingleQuote ==
    /\ pc = "scan"
    /\ i < Len(cleanSql)
    /\ IsSingleQuoteToggle(cleanSql, i, inDoubleQuotes)
    /\ inSingleQuotes' = ~inSingleQuotes
    /\ currentStatement' = Append(currentStatement, cleanSql[i + 1])
    /\ i' = i + 1
    /\ UNCHANGED << pc, sql, cleanSql, statements, inDoubleQuotes >>
    /\ UNCHANGED cmdVars

\* lines 134-135, then 147-148
ScanDoubleQuote ==
    /\ pc = "scan"
    /\ i < Len(cleanSql)
    /\ IsDoubleQuoteToggle(cleanSql, i, inSingleQuotes, inDoubleQuotes)
    /\ inDoubleQuotes' = ~inDoubleQuotes
    /\ currentStatement' = Append(currentStatement, cleanSql[i + 1])
    /\ i' = i + 1
    /\ UNCHANGED << pc, sql, cleanSql, statements, inSingleQuotes >>
    /\ UNCHANGED cmdVars

\* ScanStatementEnd without the i++ before its continue
ScanStatementEnd_NoAdvance ==
    /\ pc = "scan"
    /\ i < Len(cleanSql)
    /\ IsStatementEnd(cleanSql, i, inSingleQuotes, inDoubleQuotes)
    /\ statements' = PushTrimmed(statements, currentStatement)
    /\ currentStatement' = <<>>
    /\ UNCHANGED << pc, sql, cleanSql, inSingleQuotes, inDoubleQuotes, i >>
    /\ UNCHANGED cmdVars

\* ScanStatementEnd without the reset of the buffer
ScanStatementEnd_KeepsBuffer ==
    /\ pc = "scan"
    /\ i < Len(cleanSql)
    /\ IsStatementEnd(cleanSql, i, inSingleQuotes, inDoubleQuotes)
    /\ statements' = PushTrimmed(statements, currentStatement)
    /\ i' = i + 1
    /\ UNCHANGED << pc, sql, cleanSql, currentStatement, inSingleQuotes, inDoubleQuotes >>
    /\ UNCHANGED cmdVars

\* lines 136-145: a semicolon outside every literal ends the statement
ScanStatementEnd ==
    /\ pc = "scan"
    /\ i < Len(cleanSql)
    /\ IsStatementEnd(cleanSql, i, inSingleQuotes, inDoubleQuotes)
    /\ statements' = PushTrimmed(statements, currentStatement)
    /\ currentStatement' = <<>>
    /\ i' = i + 1
    /\ UNCHANGED << pc, sql, cleanSql, inSingleQuotes, inDoubleQuotes >>
    /\ UNCHANGED cmdVars

\* lines 147-148: every other character is copied
ScanOther ==
    /\ pc = "scan"
    /\ i < Len(cleanSql)
    /\ ~IsEscapedQuote(cleanSql, i, inDoubleQuotes)
    /\ ~IsSingleQuoteToggle(cleanSql, i, inDoubleQuotes)
    /\ ~IsDoubleQuoteToggle(cleanSql, i, inSingleQuotes, inDoubleQuotes)
    /\ ~IsStatementEnd(cleanSql, i, inSingleQuotes, inDoubleQuotes)
    /\ currentStatement' = Append(currentStatement, cleanSql[i + 1])
    /\ i' = i + 1
    /\ UNCHANGED << pc, sql, cleanSql, statements, inSingleQuotes, inDoubleQuotes >>
    /\ UNCHANGED cmdVars

\* Finish without the push of the remainder
Finish_DropsRemainder ==
    /\ pc = "scan"
    /\ ~(i < Len(cleanSql))
    /\ pc' = "done"
    /\ UNCHANGED << sql, cleanSql, statements, currentStatement, inSingleQuotes, inDoubleQuotes, i >>
    /\ UNCHANGED cmdVars

\* lines 151-157: the loop is over, the remainder is the last statement
Finish ==
    /\ pc = "scan"
    /\ ~(i < Len(cleanSql))
    /\ statements' = PushTrimmed(statements, currentStatement)
    /\ pc' = "done"
    /\ UNCHANGED << sql, cleanSql, currentStatement, inSingleQuotes, inDoubleQuotes, i >>
    /\ UNCHANGED cmdVars

Next ==
    \/ Clean
    \/ ScanEscapedQuote
    \/ ScanSingleQuote
    \/ ScanDoubleQuote
    \/ ScanStatementEnd
    \/ ScanOther
    \/ Finish

Spec == Init /\ [][Next]_vars

\* longest enumerated script of the specification with fairness
MaxFairLen == 4

\* the same invocation, on the shorter scripts
InitFair ==
    /\ pc = "call"
    /\ sql \in SeqsUpTo(MaxFairLen)
    /\ cleanSql = <<>>
    /\ statements = <<>>
    /\ currentStatement = <<>>
    /\ inSingleQuotes = FALSE
    /\ inDoubleQuotes = FALSE
    /\ i = 0
    /\ CmdIdle

\* the scan is a synchronous loop: an invocation that can take a step takes it
FairSpec == InitFair /\ [][Next]_vars /\ WF_vars(Next)

(* ------------------- the splitter as a function ----------------------- *)

\* the while loop and the final push, from position i on
RECURSIVE ScanFrom(_, _, _, _, _, _)
ScanFrom(clean, k, stmts, cur, inS, inD) ==
    IF ~(k < Len(clean)) THEN
        [ statements |-> PushTrimmed(stmts, cur), rest |-> cur,
          inSingleQuotes |-> inS, inDoubleQuotes |-> inD ]
    ELSE IF IsEscapedQuote(clean, k, inD) THEN
        ScanFrom(clean, k + 2, stmts, AppendEscaped(cur), inS, inD)
    ELSE IF IsSingleQuoteToggle(clean, k, inD) THEN
        ScanFrom(clean, k + 1, stmts, Append(cur, clean[k + 1]), ~inS, inD)
    ELSE IF IsDoubleQuoteToggle(clean, k, inS, inD) THEN
        ScanFrom(clean, k + 1, stmts, Append(cur, clean[k + 1]), inS, ~inD)
    ELSE IF IsStatementEnd(clean, k, inS, inD) THEN
        ScanFrom(clean, k + 1, PushTrimmed(stmts, cur), <<>>, inS, inD)
    ELSE
        ScanFrom(clean, k + 1, stmts, Append(cur, clean[k + 1]), inS, inD)

\* the scan of an already cleaned string
ScanClean(clean) == ScanFrom(clean, 0, <<>>, <<>>, FALSE, FALSE)

\* splitSqlStatements(sql)
SplitSqlStatements(s) == ScanClean(CleanSql(s)).statements

\* the function and the step-by-step scan agree on every script
ScanAgreesWithFunction == pc = "done" => statements = SplitSqlStatements(sql)

(* ------------------------- vocabulary of the claims -------------------- *)

InLiteral == inSingleQuotes \/ inDoubleQuotes

QuoteFree(s) == \A k \in 1..Len(s) : s[k] # "'" /\ s[k] # "\""

IsBlank(s) == Trim(s) = <<>>

\* t occurs in s as a contiguous substring
IsSubstring(t, s) ==
    \E a \in 1..(Len(s) + 1) :
        a + Len(t) - 1 <= Len(s) /\ SubSeq(s, a, a + Len(t) - 1) = t

\* b = 0, or the ';' at position b of the cleaned string ends a statement
IsBoundaryAt(clean, b) ==
    \/ b = 0
    \/ /\ b \in 1..Len(clean)
       /\ clean[b] = ";"
       /\ ScanClean(SubSeq(clean, 1, b)).rest = <<>>

\* the position of the last statement boundary of the cleaned string, 0 if none
LastBoundary(clean) ==
    CHOOSE b \in 0..Len(clean) :
        /\ IsBoundaryAt(clean, b)
        /\ \A c \in (b + 1)..Len(clean) : ~IsBoundaryAt(clean, c)

\* the text after the last statement boundary
Remainder(clean) == SubSeq(clean, LastBoundary(clean) + 1, Len(clean))

\* the statements that end at a boundary
Terminated(clean) == ScanClean(SubSeq(clean, 1, LastBoundary(clean))).statements

(* -------------------------------- C1 ---------------------------------- *)

\* C1: a ';' reached while inSingleQuotes or inDoubleQuotes is true is
\* appended to the current statement and never ends it: the step that reads it
\* leaves statements alone and adds exactly the ';' to currentStatement.
C1_SemicolonInLiteralIsCopied ==
    [][ ( /\ pc = "scan"
          /\ i < Len(cleanSql)
          /\ cleanSql[i + 1] = ";"
          /\ InLiteral )
        => ( /\ statements' = statements
             /\ currentStatement' = Append(currentStatement, ";")
             /\ i' = i + 1
             /\ pc' = "scan" ) ]_vars

\* a ';' has just been read inside a literal, after a statement was already split off
C1_Witness ==
    /\ pc = "scan"
    /\ i >= 1
    /\ cleanSql[i] = ";"
    /\ InLiteral
    /\ Len(statements) >= 1
    /\ currentStatement # <<>>
    /\ currentStatement[Len(currentStatement)] = ";"

(* -------------------------------- C3 ---------------------------------- *)

\* C3: every element of the returned sequence is non-empty, is not
\* whitespace-only and equals its own trim, whether a ';' ended it or the end
\* of the input did.
C3_StatementsTrimmedNonEmpty ==
    \A k \in 1..Len(statements) :
        /\ statements[k] # <<>>
        /\ \E j \in 1..Len(statements[k]) : ~IsWhitespace(statements[k][j])
        /\ Trim(statements[k]) = statements[k]
        /\ ~IsWhitespace(statements[k][1])
        /\ ~IsWhitespace(statements[k][Len(statements[k])])

\* both kinds of statement were emitted, the last one from a remainder that
\* had whitespace to strip, and an empty statement was skipped on the way
C3_Witness ==
    /\ pc = "done"
    /\ Len(statements) = 2
    /\ currentStatement # Trim(currentStatement)
    /\ Trim(currentStatement) = statements[2]
    /\ \E k \in 1..(Len(cleanSql) - 1) : cleanSql[k] = ";" /\ cleanSql[k + 1] = ";"

(* -------------------------------- C6 ---------------------------------- *)

\* C6: a doubled single quote met outside a double-quoted literal is copied
\* as two characters, advances the scan by two and leaves inSingleQuotes
\* unchanged; INSERT INTO t VALUES ('it''s ok'); comes back as one statement.
C6_DoubledQuoteStep ==
    [][ ( /\ pc = "scan"
          /\ i + 1 < Len(cleanSql)
          /\ cleanSql[i + 1] = "'"
          /\ cleanSql[i + 2] = "'"
          /\ ~inDoubleQuotes )
        => ( /\ currentStatement' = currentStatement \o <<"'", "'">>
             /\ i' = i + 2
             /\ inSingleQuotes' = inSingleQuotes
             /\ inDoubleQuotes' = inDoubleQuotes
             /\ statements' = statements
             /\ ( sql = <<"I", " ", "(", "'", "i", "t", "'", "'", "s", " ", "o", "k", "'", ")", ";">>
                  => SplitSqlStatements(sql) =
                       << <<"I", " ", "(", "'", "i", "t", "'", "'", "s", " ", "o", "k", "'", ")">> >> ) ) ]_vars

\* the example statement has been returned whole, its doubled quote inside
C6_Witness ==
    /\ pc = "done"
    /\ sql = <<"I", " ", "(", "'", "i", "t", "'", "'", "s", " ", "o", "k", "'", ")", ";">>
    /\ statements = << <<"I", " ", "(", "'", "i", "t", "'", "'", "s", " ", "o", "k", "'", ")">> >>

(* -------------------------------- C8 ---------------------------------- *)

\* every line of the script is blank or a full-line comment
OnlyBlankOrCommentLines(s) ==
    \A k \in 1..Len(SplitLines(s)) :
        \/ IsBlank(SplitLines(s)[k])
        \/ StartsWithDashes(Trim(SplitLines(s)[k]))

\* C8: the empty script and every script whose lines are all blank or
\* full-line '--' comments give the empty sequence.
C8_OnlyCommentsGiveNothing ==
    (pc = "done" /\ (sql = <<>> \/ OnlyBlankOrCommentLines(sql))) => statements = <<>>

\* a script of an indented comment holding a ';' and a quote came back empty
C8_Witness ==
    /\ pc = "done"
    /\ sql # <<>>
    /\ OnlyBlankOrCommentLines(sql)
    /\ \E k \in 1..Len(sql) : sql[k] = ";"
    /\ \E k \in 1..Len(sql) : sql[k] = "\n"
    /\ sql[1] = " "
    /\ statements = <<>>

(* -------------------------------- C2 ---------------------------------- *)

\* the texts t1..tk of a script written t1;t2;...;tk;
Pieces(s) == SplitOn(SubSeq(s, 1, Len(s) - 1), ";")

\* a text as C2 allows it: non-blank, no quote, no line that starts with
\* '--', indented or not (it holds no ';' since it is a piece between two)
PlainText(t) ==
    /\ ~IsBlank(t)
    /\ QuoteFree(t)
    /\ \A k \in 1..Len(SplitLines(t)) : ~StartsWithDashes(Trim(SplitLines(t)[k]))

\* the script is t1;t2;...;tk; with every ti as C2 allows it
TerminatedList(s) ==
    /\ s # <<>>
    /\ s[Len(s)] = ";"
    /\ \A k \in 1..Len(Pieces(s)) : PlainText(Pieces(s)[k])

Trims(ts) == [ k \in 1..Len(ts) |-> Trim(ts[k]) ]

\* C2 as stated: for every script t1;...;tk; of non-blank texts without
\* quote, semicolon or line starting with '--', split returns exactly
\* [trim(t1), ..., trim(tk)].
C2_AsStated ==
    (pc = "done" /\ TerminatedList(sql)) => statements = Trims(Pieces(sql))

\* the text has no blank line between two of its non-blank lines
NoBlankLineInside(t) ==
    \A k \in 1..Len(SplitLines(Trim(t))) : ~IsBlank(SplitLines(Trim(t))[k])

\* C2 amended: the same, for texts that moreover hold no blank line between
\* two of their non-blank lines; the statements are then returned in order,
\* unmerged and with their repeats.
C2_OrderedUnmergedNoDedup ==
    ( /\ pc = "done"
      /\ TerminatedList(sql)
      /\ \A k \in 1..Len(Pieces(sql)) : NoBlankLineInside(Pieces(sql)[k]) )
    => statements = Trims(Pieces(sql))

\* two equal statements, one of them with whitespace to trim, were both
\* returned
C2_Witness ==
    /\ pc = "done"
    /\ TerminatedList(sql)
    /\ \A k \in 1..Len(Pieces(sql)) : NoBlankLineInside(Pieces(sql)[k])
    /\ Len(statements) = 2
    /\ statements[1] = statements[2]
    /\ Pieces(sql)[1] # Pieces(sql)[2]

(* -------------------------------- C4 ---------------------------------- *)

\* the statements joined with ';' and followed by a trailing ';'
RECURSIVE Reserialize(_)
Reserialize(stmts) ==
    IF stmts = <<>> THEN <<>>
    ELSE Head(stmts) \o <<";">> \o Reserialize(Tail(stmts))

\* the statement holds a ';' that lies outside every quoted literal
HasBareSemicolon(t) ==
    \E k \in 1..Len(t) :
        /\ t[k] = ";"
        /\ ~ScanClean(SubSeq(t, 1, k - 1)).inSingleQuotes
        /\ ~ScanClean(SubSeq(t, 1, k - 1)).inDoubleQuotes

NoBareSemicolon(stmts) == \A k \in 1..Len(stmts) : ~HasBareSemicolon(stmts[k])

\* C4 as stated: whenever no returned statement holds a semicolon outside a
\* quoted literal, re-splitting the re-serialized statements returns them.
C4_AsStated ==
    (pc = "done" /\ NoBareSemicolon(statements))
    => SplitSqlStatements(Reserialize(statements)) = statements

\* C4 amended: the same, for scripts whose scan ends outside every literal
\* (no unclosed quote) and whose first statement does not start with '--'.
C4_ReserializeIdempotent ==
    ( /\ pc = "done"
      /\ NoBareSemicolon(statements)
      /\ ~InLiteral
      /\ (statements # <<>> => ~StartsWithDashes(statements[1])) )
    => SplitSqlStatements(Reserialize(statements)) = statements

\* two statements, one with a closed literal, were re-serialized to a script
\* other than the input and split again
C4_Witness ==
    /\ pc = "done"
    /\ ~InLiteral
    /\ Len(statements) >= 2
    /\ ~StartsWithDashes(statements[1])
    /\ NoBareSemicolon(statements)
    /\ \E k \in 1..Len(statements) : ~QuoteFree(statements[k])
    /\ sql # Reserialize(statements)
    /\ SplitSqlStatements(Reserialize(statements)) = statements

(* -------------------------------- C5 ---------------------------------- *)

\* C5: when the scan ends inside a literal (a quote was opened and never
\* closed), the statements that end at a boundary are returned as usual and
\* everything after the last boundary, the ';' after the opening quote
\* included, gives at most one final statement.
C5_UnclosedLiteralSwallowsRest ==
    (pc = "done" /\ InLiteral)
    => /\ ~IsBlank(Remainder(cleanSql))
       /\ ~QuoteFree(Remainder(cleanSql))
       /\ statements = Append(Terminated(cleanSql), Trim(Remainder(cleanSql)))
       /\ \A k \in (LastBoundary(cleanSql) + 1)..Len(cleanSql) :
              cleanSql[k] = ";" => ~IsBoundaryAt(cleanSql, k)

\* a statement was split off, then a quote was opened and a ';' after it was
\* swallowed by the final statement
C5_Witness ==
    /\ pc = "done"
    /\ InLiteral
    /\ Len(statements) = 2
    /\ \E k \in 1..Len(statements[2]) : statements[2][k] = ";"
    /\ statements[2][1] \in {"'", "\""}

(* -------------------------------- C7 ---------------------------------- *)

\* the position of the last ';' of the script, 0 if there is none
LastSemicolon(s) ==
    CHOOSE p \in 0..Len(s) :
        /\ p = 0 \/ s[p] = ";"
        /\ \A k \in (p + 1)..Len(s) : s[k] # ";"

\* every ';' of the script is a statement boundary: the script holds no quote
\* and no full-line comment holds a ';'
EverySemicolonIsBoundary(s) ==
    /\ QuoteFree(s)
    /\ \A k \in 1..Len(SplitLines(s)) :
           StartsWithDashes(Trim(SplitLines(s)[k]))
           => \A j \in 1..Len(SplitLines(s)[k]) : SplitLines(s)[k][j] # ";"

\* the text after the last ';' of the script
LastText(s) == SubSeq(s, LastSemicolon(s) + 1, Len(s))

\* C7 as stated, on scripts where every ';' is a boundary and the text after
\* the last one holds no comment line: that text, when it is not
\* whitespace-only, is returned, trimmed, as the final element.
C7_AsStated ==
    ( /\ pc = "done"
      /\ EverySemicolonIsBoundary(sql)
      /\ \A k \in 1..Len(SplitLines(LastText(sql))) :
             ~StartsWithDashes(Trim(SplitLines(LastText(sql))[k]))
      /\ ~IsBlank(LastText(sql)) )
    => /\ statements # <<>>
       /\ statements[Len(statements)] = Trim(LastText(sql))

\* C7 amended: non-whitespace text after the last statement boundary of the
\* cleaned script (the script without its blank and full-line comment lines)
\* is returned, trimmed, as the final element, after the statements that end
\* at a boundary.
C7_RemainderIsLastStatement ==
    (pc = "done" /\ ~IsBlank(Remainder(cleanSql)))
    => /\ statements # <<>>
       /\ statements[Len(statements)] = Trim(Remainder(cleanSql))
       /\ statements = Append(Terminated(cleanSql), Trim(Remainder(cleanSql)))

\* 'A;\nB'-like script: a terminated statement, then an unterminated one on
\* the next line
C7_Witness ==
    /\ pc = "done"
    /\ ~InLiteral
    /\ Len(statements) = 2
    /\ LastBoundary(cleanSql) >= 2
    /\ LastBoundary(cleanSql) < Len(cleanSql)
    /\ cleanSql[LastBoundary(cleanSql) + 1] = "\n"
    /\ statements[2] = Trim(Remainder(cleanSql))

(* -------------------------------- C9 ---------------------------------- *)

\* the lines that are inserted: blank ones and full-line comments
DroppedLines ==
    { <<>>, <<" ">>, <<"-", "-">>, <<" ", "-", "-", ";">>, <<"-", "-", "'", ";">>, <<" ", "-", "-", "\"">> }

\* the script with the line inserted after its k-th line (k = 0: before the first)
InsertLine(s, k, line) ==
    JoinLines(SubSeq(SplitLines(s), 1, k) \o << line >>
              \o SubSeq(SplitLines(s), k + 1, Len(SplitLines(s))))

\* C9: inserting a blank line or a line whose trimmed form starts with '--'
\* anywhere between the lines of a script, before the first or after the
\* last, does not change the sequence returned by split.
C9_DroppedLineChangesNothing ==
    pc = "done"
    => \A k \in 0..Len(SplitLines(sql)) : \A line \in DroppedLines :
           SplitSqlStatements(InsertLine(sql, k, line)) = statements

\* a script of several lines, with a statement over two lines and a literal
\* open across a line break, where the insertion lands inside both
C9_Witness ==
    /\ pc = "done"
    /\ Len(SplitLines(sql)) >= 3
    /\ Len(statements) >= 2
    /\ ~QuoteFree(sql)
    /\ \E k \in 1..Len(statements) : \E j \in 1..Len(statements[k]) : statements[k][j] = "\n"
    /\ SplitSqlStatements(InsertLine(sql, 1, <<" ", "-", "-", ";">>)) = statements

(* -------------------------------- C10 --------------------------------- *)

IsTrimmedSegment(t, s) ==
    \E a \in 1..(Len(s) + 1) :
        /\ a + Len(t) - 1 <= Len(s)
        /\ SubSeq(s, a, a + Len(t) - 1) = t
        /\ LET before == TrimEnd(SubSeq(s, 1, a - 1))
               after  == TrimStart(SubSeq(s, a + Len(t), Len(s)))
           IN  /\ before = <<>> \/ before[Len(before)] = ";"
               /\ after = <<>> \/ after[1] = ";"

RECURSIVE TrimAndDropEmpty(_)
TrimAndDropEmpty(pieces) ==
    IF pieces = <<>> THEN <<>>
    ELSE IF Len(Trim(Head(pieces))) > 0
         THEN << Trim(Head(pieces)) >> \o TrimAndDropEmpty(Tail(pieces))
         ELSE TrimAndDropEmpty(Tail(pieces))

\* PlainSplitSqlStatements without the removal of comment and blank lines
PlainSplitSqlStatements_NoClean(s) == TrimAndDropEmpty(SplitOn(s, ";"))

\* splitSqlStatements of migrateCommand: the cleaned script cut at every ';'
PlainSplitSqlStatements(s) == TrimAndDropEmpty(SplitOn(CleanSql(s), ";"))

\* the statements of setupTursoDatabase in the Cloudflare deploy: the same chain
CloudflareStatements(schema) ==
    TrimAndDropEmpty(SplitOn(JoinLines(FilterLines(SplitLines(schema))), ";"))

(***************************************************************************)
(* migrateCommand.  proc holds its position and locals, world the files of  *)
(* the project directory, execLog the file writes and executions started.   *)
(***************************************************************************)

\* the contents schema.sql and seed.sql are drawn from
MigrateScripts == SeqsUpTo(1) \cup Examples

\* './temp-migration.sql' in production, './temp-migration.mjs' in development
TempMigrationFile(isProduction) ==
    IF isProduction THEN "temp-migration.sql" ELSE "temp-migration.mjs"

\* './temp-seed.sql' in production, './temp-seed.mjs' in development
TempSeedFile(isProduction) ==
    IF isProduction THEN "temp-seed.sql" ELSE "temp-seed.mjs"

\* turso db shell <name> < file in production, bun <file> in development
RunFile(isProduction, file) ==
    [ op |-> IF isProduction THEN "turso db shell" ELSE "bun", file |-> file ]

InitMigrate ==
    /\ SplitIdle
    /\ calls = <<>>
    /\ \E schemaExists \in BOOLEAN, seedExists \in BOOLEAN, packageJson \in BOOLEAN,
          production \in BOOLEAN, schema \in MigrateScripts, seed \in MigrateScripts :
           world = [ schemaExists |-> schemaExists,
                     schema       |-> IF schemaExists THEN schema ELSE <<>>,
                     seedExists   |-> seedExists,
                     seed         |-> IF seedExists THEN seed ELSE <<>>,
                     packageJson  |-> packageJson,
                     production   |-> production,
                     files        |-> {} ]
    /\ proc = [ pc |-> "checkSchema", schema |-> <<>>, isProduction |-> FALSE,
                statements |-> <<>>, seedStatements |-> <<>> ]
    /\ execLog = <<>>
    /\ stdout = <<>>
    /\ exitCode = "running"

\* process.exit(1) after a message
ExitWith(code, message) ==
    /\ stdout' = Append(stdout, message)
    /\ exitCode' = code
    /\ proc' = [ proc EXCEPT !.pc = "exited" ]

\* lines 119-123: the outer catch
MigrationFailed == ExitWith("1", "Migration failed")

\* lines 17-22 without process.exit(1)
MigrateCheckSchema_NoExit ==
    /\ proc.pc = "checkSchema"
    /\ proc' = [ proc EXCEPT !.pc = "readSchema" ]
    /\ stdout' = IF world.schemaExists THEN stdout
                 ELSE Append(stdout, "No schema.sql file found at ./src/db/schema.sql")
    /\ UNCHANGED << splitVars, calls, world, execLog, exitCode >>

\* lines 17-22: schema.sql must exist
MigrateCheckSchema ==
    /\ proc.pc = "checkSchema"
    /\ IF ~world.schemaExists
       THEN ExitWith("1", "No schema.sql file found at ./src/db/schema.sql")
       ELSE /\ proc' = [ proc EXCEPT !.pc = "readSchema" ]
            /\ UNCHANGED << stdout, exitCode >>
    /\ UNCHANGED << splitVars, calls, world, execLog >>

\* lines 25-29: read the schema, determine the environment
MigrateReadSchema ==
    /\ proc.pc = "readSchema"
    /\ proc' = [ proc EXCEPT !.schema = world.schema,
                             !.isProduction = world.production,
                             !.pc = IF world.production THEN "readPackage" ELSE "write" ]
    /\ stdout' = Append(stdout, "Schema file found")
    /\ UNCHANGED << splitVars, calls, world, execLog, exitCode >>

\* lines 45-46: production reads the project name from package.json
MigrateReadPackage ==
    /\ proc.pc = "readPackage"
    /\ IF world.packageJson
       THEN /\ proc' = [ proc EXCEPT !.pc = "write" ]
            /\ UNCHANGED << stdout, exitCode >>
       ELSE MigrationFailed
    /\ UNCHANGED << splitVars, calls, world, execLog >>

\* lines 48-50 and 64-77: split the schema and write the temporary file
MigrateWrite ==
    /\ proc.pc = "write"
    /\ proc' = [ proc EXCEPT !.statements = PlainSplitSqlStatements(proc.schema),
                             !.pc = "exec" ]
    /\ world' = [ world EXCEPT !.files = @ \cup { TempMigrationFile(proc.isProduction) } ]
    /\ execLog' = Append(execLog, [ op |-> "writeFile", file |-> TempMigrationFile(proc.isProduction) ])
    /\ UNCHANGED << splitVars, calls, stdout, exitCode >>

\* lines 51 and 78, with the catch of 54-58 and 81-84: run the temporary file
MigrateExec ==
    /\ proc.pc = "exec"
    /\ execLog' = Append(execLog, RunFile(proc.isProduction, TempMigrationFile(proc.isProduction)))
    /\ \E ok \in BOOLEAN :
           IF ok
           THEN /\ proc' = [ proc EXCEPT !.pc = "remove" ]
                /\ UNCHANGED << stdout, exitCode >>
           ELSE ExitWith("1", "Failed to run migrations")
    /\ UNCHANGED << splitVars, calls, world >>

\* lines 52-53 and 79-80: remove the temporary file
MigrateRemove ==
    /\ proc.pc = "remove"
    /\ world' = [ world EXCEPT !.files = @ \ { TempMigrationFile(proc.isProduction) } ]
    /\ execLog' = Append(execLog, [ op |-> "remove", file |-> TempMigrationFile(proc.isProduction) ])
    /\ stdout' = Append(stdout, "Migrations completed")
    /\ proc' = [ proc EXCEPT !.pc = "checkSeed" ]
    /\ UNCHANGED << splitVars, calls, exitCode >>

\* lines 89-93: seed data is run when seed.sql exists
MigrateCheckSeed ==
    /\ proc.pc = "checkSeed"
    /\ IF world.seedExists
       THEN /\ proc' = [ proc EXCEPT !.seedStatements = PlainSplitSqlStatements(world.seed),
                                     !.pc = IF proc.isProduction THEN "seedReadPackage"
                                                                 ELSE "seedWrite" ]
            /\ stdout' = Append(stdout, "Running seed data...")
       ELSE /\ proc' = [ proc EXCEPT !.pc = "finish" ]
            /\ UNCHANGED stdout
    /\ UNCHANGED << splitVars, calls, world, execLog, exitCode >>

\* lines 95-96
MigrateSeedReadPackage ==
    /\ proc.pc = "seedReadPackage"
    /\ IF world.packageJson
       THEN /\ proc' = [ proc EXCEPT !.pc = "seedWrite" ]
            /\ UNCHANGED << stdout, exitCode >>
       ELSE MigrationFailed
    /\ UNCHANGED << splitVars, calls, world, execLog >>

\* lines 97-98 and 102-110
MigrateSeedWrite ==
    /\ proc.pc = "seedWrite"
    /\ world' = [ world EXCEPT !.files = @ \cup { TempSeedFile(proc.isProduction) } ]
    /\ execLog' = Append(execLog, [ op |-> "writeFile", file |-> TempSeedFile(proc.isProduction) ])
    /\ proc' = [ proc EXCEPT !.pc = "seedExec" ]
    /\ UNCHANGED << splitVars, calls, stdout, exitCode >>

\* lines 99 and 111; a failure is caught by the outer catch of 119-123
MigrateSeedExec ==
    /\ proc.pc = "seedExec"
    /\ execLog' = Append(execLog, RunFile(proc.isProduction, TempSeedFile(proc.isProduction)))
    /\ \E ok \in BOOLEAN :
           IF ok
           THEN /\ proc' = [ proc EXCEPT !.pc = "seedRemove" ]
                /\ UNCHANGED << stdout, exitCode >>
           ELSE MigrationFailed
    /\ UNCHANGED << splitVars, calls, world >>

\* lines 100 and 112-114
MigrateSeedRemove ==
    /\ proc.pc = "seedRemove"
    /\ world' = [ world EXCEPT !.files = @ \ { TempSeedFile(proc.isProduction) } ]
    /\ execLog' = Append(execLog, [ op |-> "remove", file |-> TempSeedFile(proc.isProduction) ])
    /\ stdout' = Append(stdout, "Seed data applied")
    /\ proc' = [ proc EXCEPT !.pc = "finish" ]
    /\ UNCHANGED << splitVars, calls, exitCode >>

\* line 117: the command returns
MigrateFinish ==
    /\ proc.pc = "finish"
    /\ stdout' = Append(stdout, "Database migrations completed successfully!")
    /\ exitCode' = "0"
    /\ proc' = [ proc EXCEPT !.pc = "exited" ]
    /\ UNCHANGED << splitVars, calls, world, execLog >>

NextMigrate ==
    \/ MigrateCheckSchema
    \/ MigrateReadSchema
    \/ MigrateReadPackage
    \/ MigrateWrite
    \/ MigrateExec
    \/ MigrateRemove
    \/ MigrateCheckSeed
    \/ MigrateSeedReadPackage
    \/ MigrateSeedWrite
    \/ MigrateSeedExec
    \/ MigrateSeedRemove
    \/ MigrateFinish

SpecMigrate == InitMigrate /\ [][NextMigrate]_vars

(* -------------------------------- C11 --------------------------------- *)

\* INSERT INTO t VALUES ('a;b'); abridged
QuotedSemicolonScript == <<"I", " ", "(", "'", "a", ";", "b", "'", ")", ";">>

\* the scan of the text ends outside every literal
LiteralsClosed(t) == ~ScanClean(t).inSingleQuotes /\ ~ScanClean(t).inDoubleQuotes

\* C11: the splitter copies of migrateCommand and of the Cloudflare deploy
\* never split at a ';' inside a quoted literal: of a schema whose literals
\* are all closed no statement ends inside a literal, and the script
\* INSERT INTO t VALUES ('a;b'); gives exactly that one statement.
C11_PlainCopiesKeepLiterals ==
    (proc.pc \in {"exec", "remove", "checkSeed"} /\ LiteralsClosed(CleanSql(proc.schema)))
    => /\ \A k \in 1..Len(proc.statements) : LiteralsClosed(proc.statements[k])
       /\ \A k \in 1..Len(CloudflareStatements(proc.schema)) :
              LiteralsClosed(CloudflareStatements(proc.schema)[k])
       /\ proc.schema = QuotedSemicolonScript
          => /\ proc.statements = << SubSeq(QuotedSemicolonScript, 1, 9) >>
             /\ CloudflareStatements(proc.schema) = << SubSeq(QuotedSemicolonScript, 1, 9) >>

(* -------------------------------- C12 --------------------------------- *)

\* C12: split is total: the index never exceeds the length of the cleaned
\* string, every step of the scan adds 1 or 2 to it, and every invocation
\* ends with a returned sequence.
C12_ScanTerminates ==
    /\ [](i <= Len(cleanSql))
    /\ [][ (pc = "scan" /\ pc' = "scan") => (i' = i + 1 \/ i' = i + 2) ]_vars
    /\ [](pc \in {"call", "scan", "done"})
    /\ <>(pc = "done")

\* a scan with a step of two and steps of one has ended at the end of the string
C12_Witness ==
    /\ pc = "done"
    /\ i = Len(cleanSql)
    /\ Len(cleanSql) >= 3
    /\ Len(currentStatement) < Len(cleanSql)
    /\ \E k \in 1..(Len(cleanSql) - 1) : cleanSql[k] = "'" /\ cleanSql[k + 1] = "'"
    /\ \E k \in 1..Len(cleanSql) : cleanSql[k] = ";"

(***************************************************************************)
(* Several invocations of the splitter.  Every variable of the function is  *)
(* a local of the invocation (new.js:113-121), so each invocation has its   *)
(* own record in calls; any invocation that has not returned may step next. *)
(***************************************************************************)

\* number of invocations that are followed
NumCalls == 2

\* number of times each of them is called again with the same script
MaxRounds == 2

\* the scripts of these invocations: closed and unclosed literals, doubled
\* quotes, comment lines, several statements
ConcScripts ==
    { <<>>,
      <<"a", ";", "'", ";">>,
      <<"\"", "a", ";">>,
      <<"'", ";", "'", ";", "a">>,
      <<"a", "'", "'", ";", "\n", "-", "-", "\n", "a">>,
      <<"a", ";", " ", "a">> }

\* the locals of an invocation when it is entered
NewCall(script, round, first) ==
    [ pc |-> "call", sql |-> script, cleanSql |-> <<>>, statements |-> <<>>,
      currentStatement |-> <<>>, inSingleQuotes |-> FALSE, inDoubleQuotes |-> FALSE,
      i |-> 0, round |-> round, first |-> first ]

\* NewCall with quote flags that outlive the invocation
Recall_KeepsFlags(c) ==
    [ NewCall(c.sql, c.round + 1, c.statements)
        EXCEPT !.inSingleQuotes = c.inSingleQuotes, !.inDoubleQuotes = c.inDoubleQuotes ]

\* the same script is split again; the sequence returned before is kept to compare
Recall(c) == NewCall(c.sql, c.round + 1, c.statements)

\* one step of an invocation: lines 113-121, one turn of the loop of 123-149,
\* or the final push and return of 151-157
StepOf(c) ==
    IF c.pc = "call" THEN
        [ c EXCEPT !.cleanSql = CleanSql(c.sql), !.pc = "scan" ]
    ELSE IF ~(c.i < Len(c.cleanSql)) THEN
        [ c EXCEPT !.statements = PushTrimmed(c.statements, c.currentStatement),
                   !.pc = "done" ]
    ELSE IF IsEscapedQuote(c.cleanSql, c.i, c.inDoubleQuotes) THEN
        [ c EXCEPT !.currentStatement = AppendEscaped(c.currentStatement),
                   !.i = c.i + 2 ]
    ELSE IF IsSingleQuoteToggle(c.cleanSql, c.i, c.inDoubleQuotes) THEN
        [ c EXCEPT !.inSingleQuotes = ~c.inSingleQuotes,
                   !.currentStatement = Append(c.currentStatement, c.cleanSql[c.i + 1]),
                   !.i = c.i + 1 ]
    ELSE IF IsDoubleQuoteToggle(c.cleanSql, c.i, c.inSingleQuotes, c.inDoubleQuotes) THEN
        [ c EXCEPT !.inDoubleQuotes = ~c.inDoubleQuotes,
                   !.currentStatement = Append(c.currentStatement, c.cleanSql[c.i + 1]),
                   !.i = c.i + 1 ]
    ELSE IF IsStatementEnd(c.cleanSql, c.i, c.inSingleQuotes, c.inDoubleQuotes) THEN
        [ c EXCEPT !.statements = PushTrimmed(c.statements, c.currentStatement),
                   !.currentStatement = <<>>,
                   !.i = c.i + 1 ]
    ELSE
        [ c EXCEPT !.currentStatement = Append(c.currentStatement, c.cleanSql[c.i + 1]),
                   !.i = c.i + 1 ]

InitConcurrent ==
    /\ SplitIdle
    /\ calls \in [ 1..NumCalls -> { NewCall(script, 1, <<>>) : script \in ConcScripts } ]
    /\ proc = [ pc |-> "idle" ]
    /\ world = [ none |-> TRUE ]
    /\ execLog = <<>>
    /\ stdout = <<>>
    /\ exitCode = "running"

\* some invocation that has not returned takes its next step
CallStep ==
    /\ \E k \in DOMAIN calls :
           /\ calls[k].pc # "done"
           /\ calls' = [ calls EXCEPT ![k] = StepOf(calls[k]) ]
    /\ UNCHANGED << splitVars, proc, world, execLog, stdout, exitCode >>

\* a caller calls the function again with the script of a call that returned
CallAgain ==
    /\ \E k \in DOMAIN calls :
           /\ calls[k].pc = "done"
           /\ calls[k].round < MaxRounds
           /\ calls' = [ calls EXCEPT ![k] = Recall(calls[k]) ]
    /\ UNCHANGED << splitVars, proc, world, execLog, stdout, exitCode >>

NextConcurrent == CallStep \/ CallAgain

SpecConcurrent == InitConcurrent /\ [][NextConcurrent]_vars

(* -------------------------------- C13 --------------------------------- *)

\* C13: however the steps of the invocations are interleaved, each returns
\* the sequence it returns when run alone, and a call on the same script
\* returns the sequence the call before it returned, also after a call that
\* ended inside an unclosed literal.
C13_InvocationsIndependent ==
    \A k \in DOMAIN calls :
        calls[k].pc = "done"
        => /\ calls[k].statements = SplitSqlStatements(calls[k].sql)
           /\ calls[k].round > 1 => calls[k].statements = calls[k].first

\* two invocations on different scripts were interleaved: the second had
\* started before the first returned; the first ended inside an unclosed
\* literal and its second call returned the same two statements
C13_Witness ==
    /\ calls # <<>>
    /\ calls[1].pc = "done"
    /\ calls[1].round = 2
    /\ calls[1].inSingleQuotes
    /\ Len(calls[1].statements) = 2
    /\ calls[1].statements = calls[1].first
    /\ calls[2].pc = "scan"
    /\ calls[2].round = 1
    /\ calls[2].i = 1
    /\ calls[2].sql # calls[1].sql

(* -------------------------------- C14 --------------------------------- *)

\* the line is not blank and its first non-whitespace characters are not '--'
IsSqlLine(line) == ~IsBlank(line) /\ ~StartsWithDashes(Trim(line))

\* position p of the cleaned string lies after a '--' of the same line
AfterDashes(clean, p) ==
    \E j \in 1..(p - 2) :
        /\ clean[j] = "-"
        /\ clean[j + 1] = "-"
        /\ \A m \in j..p : clean[m] # "\n"

\* C14: a line whose first non-whitespace characters are not '--' is kept
\* whole, with any '--' later in it and the text after that; the text is
\* scanned like SQL: outside a literal a ';' after a mid-line '--' ends the
\* statement, and a quote after it toggles its flag by the usual rules.
C14_MidLineDashesAreSql ==
    /\ [](pc \in {"scan", "done"} => cleanSql = JoinLines(SelectSeq(SplitLines(sql), IsSqlLine)))
    /\ [][ ( /\ pc = "scan"
             /\ i < Len(cleanSql)
             /\ AfterDashes(cleanSql, i + 1) )
           => /\ (cleanSql[i + 1] = ";" /\ ~InLiteral)
                 => /\ ~IsBlank(currentStatement)
                          => statements' = Append(statements, Trim(currentStatement))
                    /\ IsBlank(currentStatement) => statements' = statements
                    /\ currentStatement' = <<>>
              /\ (cleanSql[i + 1] = "'" /\ ~inDoubleQuotes
                    /\ ~(i + 1 < Len(cleanSql) /\ cleanSql[i + 2] = "'"))
                 => inSingleQuotes' = ~inSingleQuotes
              /\ (cleanSql[i + 1] = "\"" /\ ~inSingleQuotes)
                 => inDoubleQuotes' = ~inDoubleQuotes ]_vars

\* a statement was ended by a ';' after a mid-line '--' and a quote after
\* the '--' has opened a literal
C14_Witness ==
    /\ pc = "done"
    /\ Len(statements) = 2
    /\ IsSubstring(<<"-", "-">>, statements[1])
    /\ InLiteral
    /\ \E p \in 1..Len(cleanSql) : cleanSql[p] \in {"'", "\""} /\ AfterDashes(cleanSql, p)
    /\ \A p \in 1..Len(cleanSql) : cleanSql[p] # "\n"

(* -------------------------------- C15 --------------------------------- *)

\* the script with Windows line endings: every line feed preceded by a
\* carriage return
RECURSIVE ToCRLF(_)
ToCRLF(t) ==
    IF t = <<>> THEN <<>>
    ELSE IF Head(t) = "\n" THEN <<"\r", "\n">> \o ToCRLF(Tail(t))
    ELSE << Head(t) >> \o ToCRLF(Tail(t))

\* the text without its carriage returns
RemoveCR(t) == SelectSeq(t, LAMBDA c : c # "\r")

\* C15: the script with CRLF line endings gives as many statements, in the
\* same order, as the script with LF line endings, each equal to its
\* counterpart once the carriage returns are removed; comment lines and
\* blank lines that end in a carriage return are dropped by the cleaning.
C15_CrlfSameStatements ==
    pc = "done"
    => /\ Len(SplitSqlStatements(ToCRLF(sql))) = Len(statements)
       /\ \A k \in 1..Len(statements) :
              RemoveCR(SplitSqlStatements(ToCRLF(sql))[k]) = statements[k]
       /\ RemoveCR(CleanSql(ToCRLF(sql))) = cleanSql

\* a script with a comment line and a blank line inside a statement: with
\* CRLF endings both lines are dropped and the statement keeps a carriage
\* return inside
C15_Witness ==
    /\ pc = "done"
    /\ Len(statements) >= 2
    /\ \E k \in 1..Len(SplitLines(sql)) : StartsWithDashes(SplitLines(sql)[k])
    /\ \E k \in 1..Len(SplitLines(ToCRLF(sql))) : SplitLines(ToCRLF(sql))[k] \in { <<"\r">>, <<" ", "\r">> }
    /\ \E j \in 1..Len(SplitSqlStatements(ToCRLF(sql))[1]) :
           SplitSqlStatements(ToCRLF(sql))[1][j] = "\r"
    /\ RemoveCR(SplitSqlStatements(ToCRLF(sql))[1]) = statements[1]

(***************************************************************************)
(* deleteCommand (src/commands/delete.js:9-329).  world holds the           *)
(* resources, proc the locals, execLog the external commands started.       *)
(***************************************************************************)

\* names of the project, as package.json or the argument gives them
DeleteNames == { <<"a", "p">>, <<"a", "p", "p">> }

\* what the user types at the prompt of confirmDeletion
Answers ==
    { <<>>, <<"y">>, <<"a", "p">>, <<" ", "a", "p", "\n">>, <<"a", "p", "p">>,
      <<"A", "p">>, <<"a", " ", "p">> }

\* the contents of .env.bit2 as readDeploymentConfig returns it; "none" when
\* the file does not exist or cannot be read
DeploymentConfigs ==
    { [ exists |-> FALSE, githubRepo |-> FALSE, provider |-> "none", vercelProject |-> FALSE ],
      [ exists |-> TRUE,  githubRepo |-> FALSE, provider |-> "none", vercelProject |-> FALSE ],
      [ exists |-> TRUE,  githubRepo |-> TRUE,  provider |-> "cloudflare", vercelProject |-> FALSE ],
      [ exists |-> TRUE,  githubRepo |-> FALSE, provider |-> "none", vercelProject |-> TRUE ] }

\* the commands that delete a resource
Deletions == { "turso db destroy", "gh repo delete", "rm -rf" }

\* the commands of execLog, in order
Commands(log) == [ k \in 1..Len(log) |-> log[k].op ]

\* some command of the set was started
Started(ops) == \E k \in 1..Len(execLog) : execLog[k].op \in ops

InitDelete ==
    /\ SplitIdle
    /\ calls = <<>>
    /\ \E name \in DeleteNames, nameGiven \in BOOLEAN, force \in BOOLEAN,
          directory \in BOOLEAN,
          packageJson \in {"missing", "unreadable", "ok"}, config \in DeploymentConfigs,
          tursoDb \in BOOLEAN, remote \in {"none", "github", "other"}, answer \in Answers :
           /\ world = [ directory   |-> directory,
                        packageJson |-> IF directory THEN packageJson ELSE "missing",
                        config      |-> config,
                        tursoDb     |-> tursoDb,
                        githubRepo  |-> config.githubRepo \/ remote = "github",
                        remote      |-> remote,
                        name        |-> name,
                        typed       |-> answer ]
           /\ proc = [ pc |-> "locate", projectName |-> IF nameGiven THEN name ELSE <<>>,
                       force |-> force, actualProjectName |-> <<>>, isInsideProject |-> FALSE,
                       deploymentConfig |-> DeploymentConfigs, deletionItems |-> <<>>,
                       asked |-> FALSE, answer |-> <<>>, confirmed |-> FALSE, item |-> 1,
                       manualDeletionInstructions |-> <<>> ]
    /\ execLog = <<>>
    /\ stdout = <<>>
    /\ exitCode = "running"

\* lines 22-62: find the project and read its deployment configuration; a
\* package.json that readJson cannot read ends in the catch of lines 260-263
DeleteLocate ==
    /\ proc.pc = "locate"
    /\ IF proc.projectName # <<>> /\ ~world.directory
       THEN ExitWith("1", "Directory not found.")
       ELSE IF world.packageJson = "missing"
       THEN ExitWith("1", "no package.json")
       ELSE IF proc.projectName = <<>> /\ world.packageJson = "unreadable"
       THEN ExitWith("1", "Deletion failed:")
       ELSE /\ proc' = [ proc EXCEPT !.actualProjectName = world.name,
                                     !.isInsideProject = (proc.projectName = <<>>),
                                     !.deploymentConfig = world.config,
                                     !.pc = "collect" ]
            /\ UNCHANGED << stdout, exitCode >>
    /\ UNCHANGED << splitVars, calls, world, execLog >>

\* resolve(answer.trim() === projectName), accepting 'y' as well
ConfirmDeletion_AcceptsYes(answer, projectName) ==
    Trim(answer) = projectName \/ Trim(answer) = <<"y">>

\* lines 312-329: resolve(answer.trim() === projectName)
ConfirmDeletion(answer, projectName) == Trim(answer) = projectName

\* lines 71-82: the Turso database is listed when turso db show succeeds
TursoItems ==
    IF world.tursoDb
    THEN << [ type |-> "Turso Database", requiresManualDeletion |-> FALSE ] >>
    ELSE <<>>

\* lines 84-114: the GitHub repository of the configuration or of the remote
GitHubItems ==
    IF proc.deploymentConfig.githubRepo
       \/ (world.remote = "github")
    THEN << [ type |-> "GitHub Repository", requiresManualDeletion |-> FALSE ] >>
    ELSE <<>>

\* lines 116-151: the project of the deployment platform, deleted by hand
ProviderItems ==
    IF proc.deploymentConfig.provider # "none"
    THEN << [ type |-> "Provider Project", requiresManualDeletion |-> TRUE ] >>
    ELSE IF proc.deploymentConfig.vercelProject
    THEN << [ type |-> "Vercel Project", requiresManualDeletion |-> TRUE ] >>
    ELSE <<>>

\* lines 64-153: list what will be deleted; only queries are run
DeleteCollect ==
    /\ proc.pc = "collect"
    /\ proc' = [ proc EXCEPT !.deletionItems = TursoItems \o GitHubItems \o ProviderItems,
                             !.pc = "confirm" ]
    /\ execLog' = execLog \o << [ op |-> "turso db show" ] >>
                    \o ( IF proc.deploymentConfig.githubRepo THEN <<>>
                         ELSE << [ op |-> "git remote get-url origin" ] >> )
    /\ stdout' = Append(stdout, "This will permanently delete:")
    /\ UNCHANGED << splitVars, calls, world, exitCode >>

\* lines 156-163: the confirmation, skipped with --force
DeleteConfirm ==
    /\ proc.pc = "confirm"
    /\ IF proc.force
       THEN /\ proc' = [ proc EXCEPT !.pc = "items" ]
            /\ stdout' = Append(stdout, "Starting deletion process...")
            /\ UNCHANGED exitCode
       ELSE IF ConfirmDeletion(world.typed, proc.actualProjectName)
       THEN /\ proc' = [ proc EXCEPT !.asked = TRUE, !.answer = world.typed,
                                     !.confirmed = TRUE, !.pc = "items" ]
            /\ stdout' = Append(stdout, "Starting deletion process...")
            /\ UNCHANGED exitCode
       ELSE /\ proc' = [ proc EXCEPT !.asked = TRUE, !.answer = world.typed,
                                     !.confirmed = FALSE, !.pc = "exited" ]
            /\ stdout' = Append(stdout, "Deletion cancelled.")
            /\ exitCode' = "0"
    /\ UNCHANGED << splitVars, calls, world, execLog >>

\* lines 173-182: an item that is deleted by hand
DeleteManualItem ==
    /\ proc.pc = "items"
    /\ proc.item <= Len(proc.deletionItems)
    /\ proc.deletionItems[proc.item].requiresManualDeletion
    /\ proc' = [ proc EXCEPT !.manualDeletionInstructions =
                                 Append(@, proc.deletionItems[proc.item].type),
                             !.item = @ + 1 ]
    /\ UNCHANGED << splitVars, calls, world, execLog, stdout, exitCode >>

\* DeleteTursoItem without the try of line 186: a failure reaches the outer
\* catch
DeleteTursoItem_FailureExits ==
    /\ proc.pc = "items"
    /\ proc.item <= Len(proc.deletionItems)
    /\ proc.deletionItems[proc.item].type = "Turso Database"
    /\ execLog' = Append(execLog, [ op |-> "turso db destroy" ])
    /\ \E ok \in BOOLEAN :
           IF ok
           THEN /\ world' = [ world EXCEPT !.tursoDb = FALSE ]
                /\ stdout' = Append(stdout, "Turso Database deleted")
                /\ proc' = [ proc EXCEPT !.item = @ + 1 ]
                /\ UNCHANGED exitCode
           ELSE /\ ExitWith("1", "Deletion failed:")
                /\ UNCHANGED world
    /\ UNCHANGED << splitVars, calls >>

\* lines 183-211: deleteAction of the Turso database; a failure is caught
DeleteTursoItem ==
    /\ proc.pc = "items"
    /\ proc.item <= Len(proc.deletionItems)
    /\ proc.deletionItems[proc.item].type = "Turso Database"
    /\ execLog' = Append(execLog, [ op |-> "turso db destroy" ])
    /\ \E ok \in BOOLEAN :
           IF ok
           THEN /\ world' = [ world EXCEPT !.tursoDb = FALSE ]
                /\ stdout' = Append(stdout, "Turso Database deleted")
           ELSE /\ stdout' = Append(stdout, "Turso Database not found or already deleted")
                /\ UNCHANGED world
    /\ proc' = [ proc EXCEPT !.item = @ + 1 ]
    /\ UNCHANGED << splitVars, calls, exitCode >>

\* lines 183-207: deleteAction of the GitHub repository; on a failure the
\* remote origin is removed and the repository is left to the user
DeleteGitHubItem ==
    /\ proc.pc = "items"
    /\ proc.item <= Len(proc.deletionItems)
    /\ proc.deletionItems[proc.item].type = "GitHub Repository"
    /\ \E ok \in BOOLEAN :
           IF ok
           THEN /\ execLog' = Append(execLog, [ op |-> "gh repo delete" ])
                /\ world' = [ world EXCEPT !.githubRepo = FALSE ]
                /\ stdout' = Append(stdout, "GitHub Repository deleted")
                /\ proc' = [ proc EXCEPT !.item = @ + 1 ]
           ELSE /\ execLog' = execLog \o << [ op |-> "gh repo delete" ],
                                            [ op |-> "git remote remove origin" ] >>
                /\ \E removed \in BOOLEAN :
                       world' = [ world EXCEPT !.remote = IF removed THEN "none" ELSE @ ]
                /\ stdout' = Append(stdout, "GitHub Repository deletion requires manual action")
                /\ proc' = [ proc EXCEPT !.manualDeletionInstructions =
                                             Append(@, "GitHub Repository"),
                                         !.item = @ + 1 ]
    /\ UNCHANGED << splitVars, calls, exitCode >>

\* lines 215-233: the local project files; a failure is caught
DeleteLocalFiles ==
    /\ proc.pc = "items"
    /\ proc.item > Len(proc.deletionItems)
    /\ execLog' = Append(execLog, [ op |-> "rm -rf" ])
    /\ \E ok \in BOOLEAN :
           IF ok
           THEN /\ world' = [ world EXCEPT !.directory = FALSE, !.packageJson = "missing" ]
                /\ stdout' = Append(stdout, "Local project files removed")
           ELSE /\ stdout' = Append(stdout, "Failed to remove local files")
                /\ UNCHANGED world
    /\ proc' = [ proc EXCEPT !.pc = "report" ]
    /\ UNCHANGED << splitVars, calls, exitCode >>

\* lines 235-258: the instructions for what is left, and the return
DeleteReport ==
    /\ proc.pc = "report"
    /\ stdout' = Append(stdout, "Project deleted")
    /\ exitCode' = "0"
    /\ proc' = [ proc EXCEPT !.pc = "exited" ]
    /\ UNCHANGED << splitVars, calls, world, execLog >>

NextDelete ==
    \/ DeleteLocate
    \/ DeleteCollect
    \/ DeleteConfirm
    \/ DeleteManualItem
    \/ DeleteTursoItem
    \/ DeleteGitHubItem
    \/ DeleteLocalFiles
    \/ DeleteReport

SpecDelete == InitDelete /\ [][NextDelete]_vars

(* -------------------------------- C16 --------------------------------- *)

\* --force was given, or the answer typed at the prompt equals, once
\* trimmed, the name of the project
DeletionAuthorized ==
    \/ proc.force
    \/ proc.asked /\ Trim(proc.answer) = proc.actualProjectName

\* C16: deleteCommand starts no deletion and changes no resource unless
\* --force was given or the trimmed answer equals the project name; after
\* any other answer it has printed 'Deletion cancelled.' and exited with 0.
C16_NoDeletionWithoutConfirmation ==
    /\ [](~DeletionAuthorized => ~Started(Deletions \cup {"git remote remove origin"}))
    /\ []((proc.asked /\ ~DeletionAuthorized)
            => /\ exitCode = "0"
               /\ stdout[Len(stdout)] = "Deletion cancelled."
               /\ proc.pc = "exited")
    /\ [][ ~DeletionAuthorized' => world' = world ]_vars

\* the user typed the name of another project: the command has exited with
\* 0 and the database and the repository it had listed are still there
C16_Witness ==
    /\ proc.pc = "exited"
    /\ proc.asked
    /\ ~proc.force
    /\ proc.answer # <<>>
    /\ proc.answer # proc.actualProjectName
    /\ Len(proc.deletionItems) >= 2
    /\ world.tursoDb
    /\ world.githubRepo
    /\ world.directory
    /\ exitCode = "0"

(***************************************************************************)
(* deployCommand and handleSubsequentDeploy (unnamed/part_005:10-88 and     *)
(* 653-686).  The steps of a first deployment are modelled by the commands  *)
(* they start and by whether they throw.                                    *)
(***************************************************************************)

\* what git status --porcelain prints: nothing, or one 'XY path' line for
\* each changed file
PorcelainOutputs ==
    { <<>>,
      << " ", "M", " ", "a", "\n" >>,
      << "?", "?", " ", "b", "\n" >>,
      << "M", " ", " ", "a", "\n", "?", "?", " ", "b", "\n" >> }

Providers == { "cloudflare", "vercel", "netlify" }

\* the commands that only a first deployment starts
FirstDeploySteps ==
    { "bun add adapter", "write astro.config.mjs", "turso setup", "gh repo create",
      "write .env.bit2" }

\* the number of deployCommand invocations in a row
MaxDeploys == 2

\* the contents of src/db/schema.sql
DeploySchemas ==
    { << "a", ";", "b", ";" >>,
      << "a", ";", "\n", "-", "-", "c", "\n", "b" >>,
      QuotedSemicolonScript }

\* the contents of src/db/seed.sql; '' when there is no such file
DeploySeeds == { <<>>, << "s", ";" >> }

\* [schema, seed].join('\n')
JoinSchemaSeed(schema, seed) == schema \o << "\n" >> \o seed

\* the statements setupTursoDatabase executes on a new database
DeployStatements == SplitSqlStatements(JoinSchemaSeed(world.schema, world.seed))

\* the locals of deployCommand when it is entered
DeployEntry(round, previous) ==
    [ pc |-> "start", isFirstDeploy |-> FALSE, provider |-> "none",
      databaseExists |-> FALSE, statements |-> <<>>, failedStatement |-> 0,
      saved |-> FALSE, round |-> round, previous |-> previous ]

InitDeploy ==
    /\ SplitIdle
    /\ calls = <<>>
    /\ \E envBit2 \in BOOLEAN, gitRepository \in BOOLEAN, out \in PorcelainOutputs,
          existingAdapter \in Providers \cup {"none"}, database \in BOOLEAN,
          schema \in DeploySchemas, seed \in DeploySeeds :
           world = [ envBit2 |-> envBit2,
                     gitRepository |-> gitRepository,
                     porcelain |-> out,
                     adapter |-> existingAdapter,
                     pushed |-> FALSE,
                     schema |-> schema,
                     seed |-> seed,
                     database |-> [ exists |-> database, createdByBit2 |-> FALSE,
                                    started |-> <<>>, executed |-> <<>> ] ]
    /\ proc = DeployEntry(1, [ ran |-> FALSE, isFirstDeploy |-> FALSE, exitCode |-> "running",
                               saved |-> FALSE ])
    /\ execLog = <<>>
    /\ stdout = <<>>
    /\ exitCode = "running"

\* lines 12-19: a deployment is the first one when .env.bit2 does not exist
DeployStart ==
    /\ proc.pc = "start"
    /\ proc' = [ proc EXCEPT !.isFirstDeploy = ~world.envBit2,
                             !.pc = IF world.envBit2 THEN "gitStatus" ELSE "validate" ]
    /\ UNCHANGED << splitVars, calls, world, execLog, stdout, exitCode >>

\* if (stdout.trim()), never true
HasUncommittedChanges_Never(out) == FALSE

\* line 657: if (stdout.trim())
HasUncommittedChanges(out) == Trim(out) # <<>>

\* lines 654-672: git status --porcelain; uncommitted changes and a failing
\* command both end the process with code 1
DeployGitStatus ==
    /\ proc.pc = "gitStatus"
    /\ execLog' = Append(execLog, [ op |-> "git status --porcelain" ])
    /\ IF ~world.gitRepository
       THEN ExitWith("1", "Error checking git status")
       ELSE IF HasUncommittedChanges(world.porcelain)
       THEN ExitWith("1", "You have uncommitted changes")
       ELSE /\ proc' = [ proc EXCEPT !.pc = "push" ]
            /\ UNCHANGED << stdout, exitCode >>
    /\ UNCHANGED << splitVars, calls, world >>

\* lines 674-685: git push; a failure ends the process with code 1
DeployPush ==
    /\ proc.pc = "push"
    /\ execLog' = Append(execLog, [ op |-> "git push" ])
    /\ \E ok \in BOOLEAN :
           IF ok
           THEN /\ world' = [ world EXCEPT !.pushed = TRUE ]
                /\ stdout' = Append(stdout, "Changes pushed - deployment triggered automatically")
                /\ exitCode' = "0"
                /\ proc' = [ proc EXCEPT !.pc = "exited" ]
           ELSE /\ ExitWith("1", "Git push failed")
                /\ UNCHANGED world
    /\ UNCHANGED << splitVars, calls >>

\* lines 68-87: the catch of deployCommand
DeployFailed == ExitWith("1", "Deployment setup failed")

\* lines 24-28: validateProject throws when a project file is missing
DeployValidate ==
    /\ proc.pc = "validate"
    /\ \E ok \in BOOLEAN :
           IF ok
           THEN /\ proc' = [ proc EXCEPT !.pc = "provider" ]
                /\ UNCHANGED << stdout, exitCode >>
           ELSE DeployFailed
    /\ UNCHANGED << splitVars, calls, world, execLog >>

\* lines 30-52: the adapter found in package.json is kept or a provider is
\* selected; another provider than the existing one is installed
DeployProvider ==
    /\ proc.pc = "provider"
    /\ \E keepExisting \in BOOLEAN, selected \in Providers, ok \in BOOLEAN :
           LET provider == IF world.adapter # "none" /\ keepExisting
                           THEN world.adapter ELSE selected
           IN  IF provider = world.adapter
               THEN /\ proc' = [ proc EXCEPT !.provider = provider, !.pc = "turso" ]
                    /\ UNCHANGED << world, execLog, stdout, exitCode >>
               ELSE IF ok
               THEN /\ proc' = [ proc EXCEPT !.provider = provider, !.pc = "turso" ]
                    /\ world' = [ world EXCEPT !.adapter = provider ]
                    /\ execLog' = execLog \o << [ op |-> "bun add adapter" ],
                                                [ op |-> "write astro.config.mjs" ] >>
                    /\ UNCHANGED << stdout, exitCode >>
               ELSE /\ DeployFailed
                    /\ execLog' = Append(execLog, [ op |-> "bun add adapter" ])
                    /\ UNCHANGED world
    /\ UNCHANGED << splitVars, calls >>

\* lines 54-55 and 269-294: setupTursoDatabase is entered; the Turso CLI
\* must be installed and logged in
DeployTurso ==
    /\ proc.pc = "turso"
    /\ execLog' = Append(execLog, [ op |-> "turso setup" ])
    /\ \E ok \in BOOLEAN :
           IF ok
           THEN /\ proc' = [ proc EXCEPT !.pc = "tursoDatabase" ]
                /\ UNCHANGED << stdout, exitCode >>
           ELSE DeployFailed
    /\ UNCHANGED << splitVars, calls, world >>

\* lines 296-306: turso db show tells whether the database exists; when it
\* does not, turso db create creates it
DeployTursoDatabase ==
    /\ proc.pc = "tursoDatabase"
    /\ IF world.database.exists
       THEN /\ proc' = [ proc EXCEPT !.databaseExists = TRUE, !.pc = "tursoCredentials" ]
            /\ execLog' = Append(execLog, [ op |-> "turso db show" ])
            /\ UNCHANGED << world, stdout, exitCode >>
       ELSE /\ execLog' = execLog \o << [ op |-> "turso db show" ], [ op |-> "turso db create" ] >>
            /\ \E ok \in BOOLEAN :
                   IF ok
                   THEN /\ world' = [ world EXCEPT !.database.exists = TRUE,
                                                   !.database.createdByBit2 = TRUE ]
                        /\ proc' = [ proc EXCEPT !.databaseExists = FALSE,
                                                 !.pc = "tursoCredentials" ]
                        /\ UNCHANGED << stdout, exitCode >>
                   ELSE /\ DeployFailed
                        /\ UNCHANGED world
    /\ UNCHANGED << splitVars, calls >>

\* lines 308-314: the URL of the database and an auth token are fetched
DeployTursoCredentials ==
    /\ proc.pc = "tursoCredentials"
    /\ execLog' = execLog \o << [ op |-> "turso db show --url" ] >>
    /\ \E ok \in BOOLEAN :
           IF ok
           THEN /\ proc' = [ proc EXCEPT !.pc = "tursoSplit" ]
                /\ UNCHANGED << stdout, exitCode >>
           ELSE DeployFailed
    /\ UNCHANGED << splitVars, calls, world >>

\* lines 316-375: only for a database that did not exist, schema.sql and
\* seed.sql are joined by a newline and split
DeployTursoSplit ==
    /\ proc.pc = "tursoSplit"
    /\ IF ~proc.databaseExists
       THEN proc' = [ proc EXCEPT !.statements = DeployStatements, !.pc = "tursoStatement" ]
       ELSE proc' = [ proc EXCEPT !.pc = "git" ]
    /\ UNCHANGED << splitVars, calls, world, execLog, stdout, exitCode >>

\* DeployStatementStart without the await of the statement before
DeployStatementStart_NoAwait ==
    /\ proc.pc = "tursoStatement"
    /\ Len(world.database.started) < Len(proc.statements)
    /\ world' = [ world EXCEPT !.database.started =
                                  Append(@, proc.statements[Len(@) + 1]) ]
    /\ execLog' = Append(execLog, [ op |-> "turso db shell" ])
    /\ UNCHANGED << splitVars, calls, proc, stdout, exitCode >>

\* lines 377-379: the next statement is handed to turso db shell
DeployStatementStart ==
    /\ proc.pc = "tursoStatement"
    /\ Len(world.database.started) = Len(world.database.executed)
    /\ Len(world.database.started) < Len(proc.statements)
    /\ world' = [ world EXCEPT !.database.started =
                                  Append(@, proc.statements[Len(@) + 1]) ]
    /\ execLog' = Append(execLog, [ op |-> "turso db shell" ])
    /\ UNCHANGED << splitVars, calls, proc, stdout, exitCode >>

\* line 379: the await of the statement; a failing statement is thrown out
\* of the loop and of setupTursoDatabase
DeployStatementEnd ==
    /\ proc.pc = "tursoStatement"
    /\ Len(world.database.started) > Len(world.database.executed)
    /\ \E ok \in BOOLEAN :
           IF ok
           THEN /\ world' = [ world EXCEPT !.database.executed =
                                  Append(@, world.database.started[Len(@) + 1]) ]
                /\ UNCHANGED << proc, stdout, exitCode >>
           ELSE /\ stdout' = Append(stdout, "Deployment setup failed")
                /\ exitCode' = "1"
                /\ proc' = [ proc EXCEPT !.failedStatement = Len(world.database.started),
                                         !.pc = "exited" ]
                /\ UNCHANGED world
    /\ UNCHANGED << splitVars, calls, execLog >>

\* line 377: the loop ends after the last statement
DeployStatementsDone ==
    /\ proc.pc = "tursoStatement"
    /\ Len(world.database.executed) = Len(proc.statements)
    /\ proc' = [ proc EXCEPT !.pc = "git" ]
    /\ UNCHANGED << splitVars, calls, world, execLog, stdout, exitCode >>

\* DeployCheckGit with saveDeploymentInfo called before the git check
DeployCheckGit_SavesFirst ==
    /\ proc.pc = "git"
    /\ \E gitOk \in BOOLEAN, create \in BOOLEAN, ok \in BOOLEAN :
           IF ~gitOk
           THEN /\ DeployFailed
                /\ UNCHANGED execLog
           ELSE IF ~create
           THEN /\ proc' = [ proc EXCEPT !.pc = "guide" ]
                /\ UNCHANGED << execLog, stdout, exitCode >>
           ELSE /\ execLog' = Append(execLog, [ op |-> "gh repo create" ])
                /\ IF ok
                   THEN /\ proc' = [ proc EXCEPT !.pc = "guide" ]
                        /\ UNCHANGED << stdout, exitCode >>
                   ELSE ExitWith("1", "Failed to create repository")
    /\ world' = [ world EXCEPT !.gitRepository = TRUE, !.envBit2 = TRUE ]
    /\ UNCHANGED << splitVars, calls >>

\* lines 59-60 and 387-510: checkGitEnvironment initialises a repository
\* when there is none and may create the remote repository; a failing git
\* command is thrown to the catch of deployCommand, a failing creation is
\* thrown inside the callback of the prompt and ends the process
DeployCheckGit ==
    /\ proc.pc = "git"
    /\ \E gitOk \in BOOLEAN, create \in BOOLEAN, ok \in BOOLEAN :
           IF ~gitOk
           THEN /\ DeployFailed
                /\ UNCHANGED execLog
           ELSE IF ~create
           THEN /\ proc' = [ proc EXCEPT !.pc = "guide" ]
                /\ UNCHANGED << execLog, stdout, exitCode >>
           ELSE /\ execLog' = Append(execLog, [ op |-> "gh repo create" ])
                /\ IF ok
                   THEN /\ proc' = [ proc EXCEPT !.pc = "guide" ]
                        /\ UNCHANGED << stdout, exitCode >>
                   ELSE ExitWith("1", "Failed to create repository")
    /\ world' = [ world EXCEPT !.gitRepository = TRUE ]
    /\ UNCHANGED << splitVars, calls >>

\* lines 62-63 and 512-593: showDeploymentGuide prints the configuration
\* and the steps of the provider; it throws on a database URL it cannot take
\* apart
DeployGuide ==
    /\ proc.pc = "guide"
    /\ \E ok \in BOOLEAN :
           IF ok
           THEN /\ proc' = [ proc EXCEPT !.pc = "save" ]
                /\ UNCHANGED << stdout, exitCode >>
           ELSE DeployFailed
    /\ UNCHANGED << splitVars, calls, world, execLog >>

\* lines 65-66 and 643-651: saveDeploymentInfo writes .env.bit2; a failing
\* write is only reported
DeploySave ==
    /\ proc.pc = "save"
    /\ execLog' = Append(execLog, [ op |-> "write .env.bit2" ])
    /\ \E ok \in BOOLEAN :
           IF ok
           THEN /\ world' = [ world EXCEPT !.envBit2 = TRUE ]
                /\ UNCHANGED stdout
           ELSE /\ stdout' = Append(stdout, "Could not save deployment configuration")
                /\ UNCHANGED world
    /\ exitCode' = "0"
    /\ proc' = [ proc EXCEPT !.saved = TRUE, !.pc = "exited" ]
    /\ UNCHANGED << splitVars, calls >>

\* bit2 deploy is run again after the run before has ended
DeployAgain ==
    /\ proc.pc = "exited"
    /\ proc.round < MaxDeploys
    /\ proc' = DeployEntry(proc.round + 1,
                           [ ran |-> TRUE, isFirstDeploy |-> proc.isFirstDeploy,
                             exitCode |-> exitCode, saved |-> proc.saved ])
    /\ execLog' = <<>>
    /\ stdout' = <<>>
    /\ exitCode' = "running"
    /\ UNCHANGED << splitVars, calls, world >>

NextDeploy ==
    \/ DeployStart
    \/ DeployGitStatus
    \/ DeployPush
    \/ DeployValidate
    \/ DeployProvider
    \/ DeployTurso
    \/ DeployTursoDatabase
    \/ DeployTursoCredentials
    \/ DeployTursoSplit
    \/ DeployStatementStart
    \/ DeployStatementEnd
    \/ DeployStatementsDone
    \/ DeployCheckGit
    \/ DeployGuide
    \/ DeploySave
    \/ DeployAgain

SpecDeploy == InitDeploy /\ [][NextDeploy]_vars

(* -------------------------------- C17 --------------------------------- *)

\* the run found .env.bit2
SubsequentDeploy == proc.pc # "start" /\ ~proc.isFirstDeploy

\* C17: when .env.bit2 exists, deployCommand starts no first-deploy step,
\* starts git push only after git status --porcelain succeeded with empty
\* output, and otherwise has exited with code 1 without pushing.
C17_SubsequentDeployOnlyPushesClean ==
    SubsequentDeploy
    => /\ ~Started(FirstDeploySteps)
       /\ world.envBit2
       /\ Started({"git push"})
            => /\ Commands(execLog) = << "git status --porcelain", "git push" >>
               /\ world.gitRepository
               /\ world.porcelain = <<>>
       /\ (proc.pc \notin {"gitStatus"} /\ (~world.gitRepository \/ world.porcelain # <<>>))
            => /\ exitCode = "1"
               /\ proc.pc = "exited"
               /\ ~Started({"git push"})
               /\ ~world.pushed

\* a subsequent deployment with a modified file has exited after git status
C17_Witness ==
    /\ SubsequentDeploy
    /\ world.gitRepository
    /\ world.porcelain # <<>>
    /\ exitCode = "1"
    /\ Commands(execLog) = << "git status --porcelain" >>

(***************************************************************************)
(* validateProjectName (src/utils/errors.js:130-166), the validator of the  *)
(* tests (unnamed/part_017:4-13), and newCommand (src/commands/new.js).     *)
(***************************************************************************)

LowerLetters ==
    << "a", "b", "c", "d", "e", "f", "g", "h", "i", "j", "k", "l", "m",
       "n", "o", "p", "q", "r", "s", "t", "u", "v", "w", "x", "y", "z" >>

UpperLetters ==
    << "A", "B", "C", "D", "E", "F", "G", "H", "I", "J", "K", "L", "M",
       "N", "O", "P", "Q", "R", "S", "T", "U", "V", "W", "X", "Y", "Z" >>

Digits == { "0", "1", "2", "3", "4", "5", "6", "7", "8", "9" }

\* [a-z]
IsLower(c) == \E k \in 1..Len(LowerLetters) : LowerLetters[k] = c

\* [a-z0-9]
IsLowerOrDigit(c) == IsLower(c) \/ c \in Digits

\* String.prototype.toLowerCase
ToLowerCase(t) ==
    [ k \in 1..Len(t) |->
        IF \E j \in 1..Len(UpperLetters) : UpperLetters[j] = t[k]
        THEN LowerLetters[CHOOSE j \in 1..Len(UpperLetters) : UpperLetters[j] = t[k]]
        ELSE t[k] ]

\* the longest name that is accepted
MaxNameLength == 100

\* /^[a-z0-9][a-z0-9-_.]*$/
ValidPattern(t) ==
    /\ Len(t) >= 1
    /\ IsLowerOrDigit(t[1])
    /\ \A k \in 2..Len(t) : IsLowerOrDigit(t[k]) \/ t[k] \in {"-", "_", "."}

\* ['node_modules', 'favicon.ico', 'test', 'tests']
Reserved ==
    { << "n", "o", "d", "e", "_", "m", "o", "d", "u", "l", "e", "s" >>,
      << "f", "a", "v", "i", "c", "o", "n", ".", "i", "c", "o" >>,
      << "t", "e", "s", "t" >>,
      << "t", "e", "s", "t", "s" >> }

\* errors.js:130-166
ValidateProjectName(name) ==
    IF ~name.isString \/ name.text = <<>>
    THEN [ valid |-> FALSE, error |-> "Project name is required" ]
    ELSE IF Len(name.text) < 1 \/ Len(name.text) > MaxNameLength
    THEN [ valid |-> FALSE, error |-> "Project name must be between 1 and 100 characters" ]
    ELSE IF ~ValidPattern(name.text)
    THEN [ valid |-> FALSE, error |-> "Project name must be lowercase" ]
    ELSE IF name.text[1] \in {".", "-"} \/ name.text[Len(name.text)] \in {".", "-"}
    THEN [ valid |-> FALSE, error |-> "Project name cannot start or end with a dot or hyphen" ]
    ELSE IF ToLowerCase(name.text) \in Reserved
    THEN [ valid |-> FALSE, error |-> "is a reserved name" ]
    ELSE [ valid |-> TRUE, error |-> "" ]

\* /^[a-z][a-z0-9-]*[a-z0-9]$/
ReferencePattern(t) ==
    /\ Len(t) >= 2
    /\ IsLower(t[1])
    /\ \A k \in 2..(Len(t) - 1) : IsLowerOrDigit(t[k]) \/ t[k] = "-"
    /\ IsLowerOrDigit(t[Len(t)])

\* the validateProjectName of the tests, part_017:4-13
ReferenceValidateProjectName(name) ==
    IF ~name.isString \/ name.text = <<>> THEN FALSE
    ELSE IF Len(name.text) < 1 \/ Len(name.text) > MaxNameLength THEN FALSE
    ELSE IF Len(name.text) = 1 THEN IsLower(name.text[1])
    ELSE ReferencePattern(name.text)

\* the length of the enumerated names
MaxNameLen == 3

NameAlphabet == { "a", "1", "-", "_", ".", "A", " " }

Repeat(c, n) == [ k \in 1..n |-> c ]

\* the enumerated names, the names of the tests, the reserved names and
\* the names at the length limit
NameTexts ==
    UNION { [ 1..n -> NameAlphabet ] : n \in 0..MaxNameLen }
    \cup Reserved
    \cup { << "m", "y", "_", "p", "r", "o", "j", "e", "c", "t" >>,
           << "m", "y", "-", "p", "r", "o", "j", "e", "c", "t" >>,
           << "m", "y", ".", "p", "r", "o", "j", "e", "c", "t" >>,
           << "1", "2", "3", "p", "r", "o", "j", "e", "c", "t" >>,
           << "I", "n", "v", "a", "l", "i", "d", " ", "N", "a", "m", "e" >>,
           Repeat("a", MaxNameLength),
           Repeat("a", MaxNameLength + 1) }

\* what newCommand may be given: a string, or undefined
NameInputs ==
    { [ isString |-> TRUE, text |-> t ] : t \in NameTexts }
    \cup { [ isString |-> FALSE, text |-> <<>> ] }

\* the schema.sql of the template
NewScripts == { QuotedSemicolonScript, << "a", ";", "\n", "-", "-", "c", "\n", "b" >> }

\* the seed.sql of the template
NewSeed == << "s", ";" >>

InitNew ==
    /\ SplitIdle
    /\ calls = <<>>
    /\ \E name \in NameInputs, bun \in BOOLEAN, directory \in BOOLEAN, schema \in NewScripts :
           world = [ projectName |-> name,
                     bun         |-> bun,
                     directory   |-> directory,
                     template    |-> FALSE,
                     schema      |-> schema,
                     seed        |-> NewSeed,
                     modules     |-> FALSE,
                     files       |-> {},
                     database    |-> <<>> ]
    /\ proc = [ pc |-> "validate", projectName |-> world.projectName,
                validation |-> [ valid |-> FALSE, error |-> "" ],
                schemaStatements |-> <<>>, seedStatements |-> <<>> ]
    /\ execLog = <<>>
    /\ stdout = <<>>
    /\ exitCode = "running"

\* lines 12-17 without process.exit(1)
NewValidate_NoExit ==
    /\ proc.pc = "validate"
    /\ proc' = [ proc EXCEPT !.validation = ValidateProjectName(proc.projectName),
                             !.pc = "checkBun" ]
    /\ stdout' = IF ValidateProjectName(proc.projectName).valid
                 THEN Append(stdout, "Creating new Astro + libSQL project")
                 ELSE stdout \o << "Invalid project name:", "Creating new Astro + libSQL project" >>
    /\ UNCHANGED << splitVars, calls, world, execLog, exitCode >>

\* lines 12-19: an invalid name is reported and the process exits with 1
NewValidate ==
    /\ proc.pc = "validate"
    /\ IF ValidateProjectName(proc.projectName).valid
       THEN /\ proc' = [ proc EXCEPT !.validation = ValidateProjectName(proc.projectName),
                                     !.pc = "checkBun" ]
            /\ stdout' = Append(stdout, "Creating new Astro + libSQL project")
            /\ UNCHANGED exitCode
       ELSE /\ proc' = [ proc EXCEPT !.validation = ValidateProjectName(proc.projectName),
                                     !.pc = "exited" ]
            /\ stdout' = Append(stdout, "Invalid project name:")
            /\ exitCode' = "1"
    /\ UNCHANGED << splitVars, calls, world, execLog >>

\* lines 21-33: bun --version must succeed
NewCheckBun ==
    /\ proc.pc = "checkBun"
    /\ execLog' = Append(execLog, [ op |-> "bun --version" ])
    /\ IF world.bun
       THEN /\ proc' = [ proc EXCEPT !.pc = "checkDirectory" ]
            /\ UNCHANGED << stdout, exitCode >>
       ELSE ExitWith("1", "Bun is required to create and run bit2 projects")
    /\ UNCHANGED << splitVars, calls, world >>

\* lines 216-219: the catch of newCommand
NewFailed == ExitWith("1", "Failed to create project:")

\* lines 38-45: the directory must not exist
NewCheckDirectory ==
    /\ proc.pc = "checkDirectory"
    /\ IF world.directory
       THEN ExitWith("1", "Directory already exists!")
       ELSE /\ proc' = [ proc EXCEPT !.pc = "createDirectory" ]
            /\ UNCHANGED << stdout, exitCode >>
    /\ UNCHANGED << splitVars, calls, world, execLog >>

\* line 48: fs.ensureDir(projectPath)
NewCreateDirectory ==
    /\ proc.pc = "createDirectory"
    /\ execLog' = Append(execLog, [ op |-> "ensureDir" ])
    /\ \E ok \in BOOLEAN :
           IF ok
           THEN /\ world' = [ world EXCEPT !.directory = TRUE ]
                /\ proc' = [ proc EXCEPT !.pc = "copyTemplate" ]
                /\ UNCHANGED << stdout, exitCode >>
           ELSE /\ NewFailed
                /\ UNCHANGED world
    /\ UNCHANGED << splitVars, calls >>

\* lines 50-90: the template is copied and the name and version filled in
NewCopyTemplate ==
    /\ proc.pc = "copyTemplate"
    /\ execLog' = Append(execLog, [ op |-> "copy template" ])
    /\ \E ok \in BOOLEAN :
           IF ok
           THEN /\ world' = [ world EXCEPT !.template = TRUE ]
                /\ proc' = [ proc EXCEPT !.pc = "install" ]
                /\ UNCHANGED << stdout, exitCode >>
           ELSE /\ NewFailed
                /\ UNCHANGED world
    /\ UNCHANGED << splitVars, calls >>

\* lines 201-209: the catch around the install and the database setup
NewWarn ==
    /\ stdout' = Append(stdout, "Could not auto-install dependencies or initialize database")
    /\ exitCode' = "0"
    /\ proc' = [ proc EXCEPT !.pc = "exited" ]

\* lines 92-101: bun install
NewInstall ==
    /\ proc.pc = "install"
    /\ execLog' = Append(execLog, [ op |-> "bun install" ])
    /\ \E ok \in BOOLEAN :
           IF ok
           THEN /\ world' = [ world EXCEPT !.modules = TRUE ]
                /\ proc' = [ proc EXCEPT !.pc = "writeInit" ]
                /\ UNCHANGED << stdout, exitCode >>
           ELSE /\ NewWarn
                /\ UNCHANGED world
    /\ UNCHANGED << splitVars, calls >>

\* lines 103-187: schema.sql and seed.sql are split and temp-init.mjs is
\* written
NewWriteInit ==
    /\ proc.pc = "writeInit"
    /\ execLog' = Append(execLog, [ op |-> "write temp-init.mjs" ])
    /\ \E ok \in BOOLEAN :
           IF ok
           THEN /\ world' = [ world EXCEPT !.files = @ \cup {"temp-init.mjs"} ]
                /\ proc' = [ proc EXCEPT
                                !.schemaStatements = SplitSqlStatements(world.schema),
                                !.seedStatements = SplitSqlStatements(world.seed),
                                !.pc = "runInit" ]
                /\ UNCHANGED << stdout, exitCode >>
           ELSE /\ NewWarn
                /\ UNCHANGED world
    /\ UNCHANGED << splitVars, calls >>

\* line 188: bun ./temp-init.mjs executes the schema statements and then
\* the seed statements
NewRunInit ==
    /\ proc.pc = "runInit"
    /\ execLog' = Append(execLog, [ op |-> "bun ./temp-init.mjs" ])
    /\ \E ok \in BOOLEAN :
           IF ok
           THEN /\ world' = [ world EXCEPT !.database =
                                  proc.schemaStatements \o proc.seedStatements ]
                /\ proc' = [ proc EXCEPT !.pc = "removeInit" ]
                /\ UNCHANGED << stdout, exitCode >>
           ELSE /\ NewWarn
                /\ UNCHANGED world
    /\ UNCHANGED << splitVars, calls >>

\* lines 189-190: temp-init.mjs is removed
NewRemoveInit ==
    /\ proc.pc = "removeInit"
    /\ execLog' = Append(execLog, [ op |-> "remove temp-init.mjs" ])
    /\ \E ok \in BOOLEAN :
           IF ok
           THEN /\ world' = [ world EXCEPT !.files = @ \ {"temp-init.mjs"} ]
                /\ proc' = [ proc EXCEPT !.pc = "finish" ]
                /\ UNCHANGED << stdout, exitCode >>
           ELSE /\ NewWarn
                /\ UNCHANGED world
    /\ UNCHANGED << splitVars, calls >>

\* lines 202-214: the success message
NewFinish ==
    /\ proc.pc = "finish"
    /\ stdout' = Append(stdout, "Project created and initialized successfully!")
    /\ exitCode' = "0"
    /\ proc' = [ proc EXCEPT !.pc = "exited" ]
    /\ UNCHANGED << splitVars, calls, world, execLog >>

NextNew ==
    \/ NewValidate
    \/ NewCheckBun
    \/ NewCheckDirectory
    \/ NewCreateDirectory
    \/ NewCopyTemplate
    \/ NewInstall
    \/ NewWriteInit
    \/ NewRunInit
    \/ NewRemoveInit
    \/ NewFinish

SpecNew == InitNew /\ [][NextNew]_vars

(* -------------------------------- C18 --------------------------------- *)

\* C18: validateProjectName of the CLI accepts a name exactly when the
\* validator of the tests accepts it.
C18_CliAgreesWithReference ==
    proc.pc # "validate"
    => (proc.validation.valid <=> ReferenceValidateProjectName(proc.projectName))

(* -------------------------------- C19 --------------------------------- *)

\* the name was validated and rejected
NameRejected == proc.pc # "validate" /\ ~proc.validation.valid

\* C19: when the name fails validation newCommand has exited with code 1
\* and started nothing: no directory, no template file, no install and no
\* database initialization.
C19_InvalidNameStopsFirst ==
    NameRejected
    => /\ exitCode = "1"
       /\ proc.pc = "exited"
       /\ execLog = <<>>
       /\ ~world.template
       /\ ~world.modules
       /\ world.files = {}
       /\ world.database = <<>>

\* a name with a space and capitals was rejected
C19_Witness ==
    /\ NameRejected
    /\ proc.projectName.isString
    /\ \E k \in 1..Len(proc.projectName.text) : proc.projectName.text[k] = " "
    /\ Len(proc.projectName.text) > MaxNameLen
    /\ exitCode = "1"

(* -------------------------------- C20 --------------------------------- *)

\* schema.sql does not exist and migrateCommand has looked for it
SchemaMissing == ~world.schemaExists /\ proc.pc # "checkSchema"

\* C20: when ./src/db/schema.sql does not exist, migrateCommand has exited
\* with code 1 and has written no temporary file and started no execution,
\* neither of the schema nor of the seed data.
C20_MissingSchemaFailsFirst ==
    SchemaMissing
    => /\ exitCode = "1"
       /\ proc.pc = "exited"
       /\ execLog = <<>>
       /\ world.files = {}
       /\ proc.statements = <<>>
       /\ proc.seedStatements = <<>>

\* there is a seed.sql but no schema.sql, and the command has exited
C20_Witness ==
    /\ SchemaMissing
    /\ world.seedExists
    /\ world.seed # <<>>
    /\ exitCode = "1"
    /\ stdout = << "No schema.sql file found at ./src/db/schema.sql" >>

(* -------------------------------- C21 --------------------------------- *)

\* the character the scan is looking at
CurrentChar == IF pc = "scan" /\ i < Len(cleanSql) THEN cleanSql[i + 1] ELSE ""

\* C21: inSingleQuotes and inDoubleQuotes are never both true; the scan
\* starts with both false, inSingleQuotes changes only at a single quote met
\* while inDoubleQuotes is false, and inDoubleQuotes only at a double quote
\* met while inSingleQuotes is false.
C21_QuoteFlagsExclusive ==
    /\ [](~(inSingleQuotes /\ inDoubleQuotes))
    /\ []((pc = "scan" /\ i = 0) => (~inSingleQuotes /\ ~inDoubleQuotes))
    /\ [][ /\ (inSingleQuotes' # inSingleQuotes)
              => (CurrentChar = "'" /\ ~inDoubleQuotes /\ inDoubleQuotes' = inDoubleQuotes)
           /\ (inDoubleQuotes' # inDoubleQuotes)
              => (CurrentChar = "\"" /\ ~inSingleQuotes /\ inSingleQuotes' = inSingleQuotes)
         ]_vars

\* a double quote was copied inside a single-quoted literal that is still open
C21_Witness ==
    /\ pc = "scan"
    /\ inSingleQuotes
    /\ ~inDoubleQuotes
    /\ Len(currentStatement) >= 2
    /\ currentStatement[Len(currentStatement)] = "\""
    /\ currentStatement[1] = "'"

(* -------------------------------- C22 --------------------------------- *)

\* s is the beginning of t
IsPrefix(s, t) == Len(s) <= Len(t) /\ s = SubSeq(t, 1, Len(s))

PreviousFirstDeployFailed ==
    proc.previous.ran /\ proc.previous.isFirstDeploy /\ proc.previous.exitCode = "1"

\* C23: .env.bit2 is written only by the last step of a first deployment,
\* after validation, adapter selection, Turso setup and the git check; a
\* first deployment that failed leaves no .env.bit2, and the run after it
\* takes the first-deploy path again.
C23_EnvFileOnlyAfterFullSetup ==
    /\ [][ world.envBit2' # world.envBit2
             => /\ proc.pc = "save"
                /\ proc.isFirstDeploy
                /\ proc.provider \in Providers
                /\ world.adapter = proc.provider
                /\ Started({"turso setup"})
                /\ world.database.exists
                /\ world.gitRepository
                /\ world.envBit2'
                /\ proc'.pc = "exited"
                /\ exitCode' = "0" ]_vars
    /\ []((proc.pc = "exited" /\ proc.isFirstDeploy /\ exitCode = "1") => ~world.envBit2)
    /\ []((PreviousFirstDeployFailed /\ proc.pc # "start")
            => (proc.isFirstDeploy /\ ~Started({"git push"})))

\* after a first deployment that failed in the git check, the next run is
\* validating the project again
C23_Witness ==
    /\ PreviousFirstDeployFailed
    /\ world.database.createdByBit2
    /\ world.gitRepository
    /\ proc.pc = "provider"
    /\ proc.isFirstDeploy
    /\ ~world.envBit2

(***************************************************************************)
(* setupTursoDatabase of the Vercel deploy (src/commands/delete.js:628-680). *)
(* Its split('\\n') and join('\\n') are written with an escaped backslash:   *)
(* the separator is the two characters backslash and n.                     *)
(***************************************************************************)

\* the string literal '\\n': a backslash and the letter n
BackslashN == << "\\", "n" >>

\* sep occurs in s at position k
OccursAt(s, sep, k) == k + Len(sep) - 1 <= Len(s) /\ SubSeq(s, k, k + Len(sep) - 1) = sep

\* String.prototype.split with a separator of one or more characters
RECURSIVE SplitOnText(_, _)
SplitOnText(s, sep) ==
    IF \A k \in 1..Len(s) : ~OccursAt(s, sep, k) THEN << s >>
    ELSE LET p == CHOOSE k \in 1..Len(s) :
                      OccursAt(s, sep, k) /\ \A j \in 1..(k - 1) : ~OccursAt(s, sep, j)
         IN  << SubSeq(s, 1, p - 1) >> \o SplitOnText(SubSeq(s, p + Len(sep), Len(s)), sep)

\* Array.prototype.join
RECURSIVE JoinWith(_, _)
JoinWith(ls, sep) ==
    IF ls = <<>> THEN <<>>
    ELSE IF Len(ls) = 1 THEN ls[1]
    ELSE ls[1] \o sep \o JoinWith(Tail(ls), sep)

\* lines 663-669: the statements of the Vercel deploy
VercelStatements(schema) ==
    TrimAndDropEmpty(
        SplitOn(JoinWith(FilterLines(SplitOnText(schema, BackslashN)), BackslashN), ";"))

\* the length of the enumerated schemas
MaxVercelLen == 3

VercelAlphabet == { "a", ";", "-", "\n", "\\", "n" }

\* '-- c' newline 'A;' newline '-- c2' newline 'B;'
CommentedSchema ==
    << "-", "-", " ", "c", "\n", "A", ";", "\n", "-", "-", " ", "c", "2", "\n", "B", ";" >>

VercelSchemas ==
    UNION { [ 1..n -> VercelAlphabet ] : n \in 0..MaxVercelLen }
    \cup { CommentedSchema,
           << "A", ";", "\n", "-", "-", " ", "c", "2", "\n", "B", ";" >> }

InitVercel ==
    /\ SplitIdle
    /\ calls = <<>>
    /\ \E database \in BOOLEAN, schemaExists \in BOOLEAN, schema \in VercelSchemas :
           world = [ database |-> [ exists |-> database, executed |-> <<>> ],
                     schemaExists |-> schemaExists,
                     schema |-> IF schemaExists THEN schema ELSE <<>> ]
    /\ proc = [ pc |-> "show", databaseExists |-> FALSE, statements |-> <<>> ]
    /\ execLog = <<>>
    /\ stdout = <<>>
    /\ exitCode = "running"

\* the error is thrown to deployCommand
VercelFailed == ExitWith("1", "Deployment failed")

\* lines 629-647: turso db show, and turso db create when it fails
VercelDatabase ==
    /\ proc.pc = "show"
    /\ IF world.database.exists
       THEN /\ proc' = [ proc EXCEPT !.databaseExists = TRUE, !.pc = "credentials" ]
            /\ execLog' = Append(execLog, [ op |-> "turso db show" ])
            /\ stdout' = Append(stdout, "Using existing Turso database")
            /\ UNCHANGED << world, exitCode >>
       ELSE /\ execLog' = execLog \o << [ op |-> "turso db show" ], [ op |-> "turso db create" ] >>
            /\ \E ok \in BOOLEAN :
                   IF ok
                   THEN /\ world' = [ world EXCEPT !.database.exists = TRUE ]
                        /\ proc' = [ proc EXCEPT !.pc = "credentials" ]
                        /\ UNCHANGED << stdout, exitCode >>
                   ELSE /\ VercelFailed
                        /\ UNCHANGED world
    /\ UNCHANGED << splitVars, calls >>

\* lines 649-655: the URL and the auth token
VercelCredentials ==
    /\ proc.pc = "credentials"
    /\ execLog' = Append(execLog, [ op |-> "turso db show --url" ])
    /\ \E ok \in BOOLEAN :
           IF ok
           THEN /\ proc' = [ proc EXCEPT !.pc = "split" ]
                /\ UNCHANGED << stdout, exitCode >>
           ELSE VercelFailed
    /\ UNCHANGED << splitVars, calls, world >>

\* lines 657-669: schema.sql is read and split into statements
VercelSplit ==
    /\ proc.pc = "split"
    /\ IF world.schemaExists
       THEN proc' = [ proc EXCEPT !.statements = VercelStatements(world.schema),
                                  !.pc = "statement" ]
       ELSE proc' = [ proc EXCEPT !.pc = "done" ]
    /\ UNCHANGED << splitVars, calls, world, execLog, stdout, exitCode >>

\* lines 671-675: each statement is executed in turn
VercelStatement ==
    /\ proc.pc = "statement"
    /\ Len(world.database.executed) < Len(proc.statements)
    /\ execLog' = Append(execLog, [ op |-> "turso db shell" ])
    /\ \E ok \in BOOLEAN :
           IF ok
           THEN /\ world' = [ world EXCEPT !.database.executed =
                                  Append(@, proc.statements[Len(@) + 1]) ]
                /\ UNCHANGED << proc, stdout, exitCode >>
           ELSE /\ VercelFailed
                /\ UNCHANGED world
    /\ UNCHANGED << splitVars, calls >>

\* line 679: return { databaseUrl, authToken }
VercelReturn ==
    /\ proc.pc = "statement"
    /\ Len(world.database.executed) = Len(proc.statements)
    /\ proc' = [ proc EXCEPT !.pc = "done" ]
    /\ UNCHANGED << splitVars, calls, world, execLog, stdout, exitCode >>

NextVercel ==
    \/ VercelDatabase
    \/ VercelCredentials
    \/ VercelSplit
    \/ VercelStatement
    \/ VercelReturn

SpecVercel == InitVercel /\ [][NextVercel]_vars

(* -------------------------------- C24 --------------------------------- *)

\* C24: for the schema '-- c' newline 'A;' newline '-- c2' newline 'B;' the
\* Vercel deploy's setupTursoDatabase executes exactly the statements A and
\* B: the comment lines are dropped and the statements of the other lines
\* are kept.
C24_CommentLinesDroppedOnly ==
    (world.schemaExists /\ world.schema = CommentedSchema /\ proc.pc = "done")
    => world.database.executed = << << "A" >>, << "B" >> >>

(* -------------------------------- C25 --------------------------------- *)

\* the command that deletes an item of the list
DeleteActionOf(item) ==
    IF item.type = "Turso Database" THEN "turso db destroy" ELSE "gh repo delete"

\* the deletions planned for the items before position n of the list
RECURSIVE PlannedBefore(_, _)
PlannedBefore(items, n) ==
    IF n <= 1 \/ items = <<>> THEN <<>>
    ELSE IF Head(items).requiresManualDeletion
    THEN PlannedBefore(Tail(items), n - 1)
    ELSE << DeleteActionOf(Head(items)) >> \o PlannedBefore(Tail(items), n - 1)

\* the deletions started so far, in order
DeletionsStarted == SelectSeq(Commands(execLog), LAMBDA op : op \in Deletions)

\* the deletion was confirmed or forced and the loop over the items entered
DeletionConfirmed == proc.pc \in {"items", "report"} \/ (proc.pc = "exited" /\ proc.item > 1)
                     \/ (proc.pc = "exited" /\ Started({"rm -rf"}))

\* C25: once the deletion is confirmed every planned deletion is attempted:
\* a cloud deletion that fails is caught and the loop goes on to the next
\* item, and the removal of the local files is attempted after the loop
\* whatever failed; the command then ends with code 0.
C25_EveryDeletionAttempted ==
    /\ [](proc.pc = "items"
            => DeletionsStarted = PlannedBefore(proc.deletionItems, proc.item))
    /\ []((DeletionConfirmed /\ proc.pc \in {"report", "exited"})
            => DeletionsStarted =
                   PlannedBefore(proc.deletionItems, Len(proc.deletionItems) + 1) \o << "rm -rf" >>)
    /\ []((DeletionConfirmed /\ proc.pc = "exited") => exitCode = "0")
    /\ [][ (proc.pc = "items" /\ execLog' # execLog /\ world' = world)
             => /\ exitCode' = "running"
                /\ \/ proc'.pc = "items" /\ proc'.item = proc.item + 1
                   \/ proc'.pc = "report" /\ proc.item > Len(proc.deletionItems) ]_vars

\* turso db destroy failed, gh repo delete failed, the local files were
\* removed and the command has ended
C25_Witness ==
    /\ proc.pc = "exited"
    /\ DeletionsStarted = << "turso db destroy", "gh repo delete", "rm -rf" >>
    /\ Commands(execLog)[Len(execLog)] = "rm -rf"
    /\ world.tursoDb
    /\ world.githubRepo
    /\ ~world.directory
    /\ Len(proc.manualDeletionInstructions) >= 1

(* -------------------------------- C26 --------------------------------- *)

\* the scan without the branch for a doubled single quote: every single
\* quote met outside a double-quoted literal toggles inSingleQuotes and is
\* appended
RECURSIVE ToggleOnlyScanFrom(_, _, _, _, _, _)
ToggleOnlyScanFrom(clean, k, stmts, cur, inS, inD) ==
    IF ~(k < Len(clean)) THEN PushTrimmed(stmts, cur)
    ELSE IF clean[k + 1] = "'" /\ ~inD THEN
        ToggleOnlyScanFrom(clean, k + 1, stmts, Append(cur, clean[k + 1]), ~inS, inD)
    ELSE IF clean[k + 1] = "\"" /\ ~inS THEN
        ToggleOnlyScanFrom(clean, k + 1, stmts, Append(cur, clean[k + 1]), inS, ~inD)
    ELSE IF clean[k + 1] = ";" /\ ~inS /\ ~inD THEN
        ToggleOnlyScanFrom(clean, k + 1, PushTrimmed(stmts, cur), <<>>, inS, inD)
    ELSE
        ToggleOnlyScanFrom(clean, k + 1, stmts, Append(cur, clean[k + 1]), inS, inD)

ToggleOnlySplit(s) == ToggleOnlyScanFrom(CleanSql(s), 0, <<>>, <<>>, FALSE, FALSE)

\* the text has two single quotes in a row
HasDoubledQuote(t) == \E k \in 1..(Len(t) - 1) : t[k] = "'" /\ t[k + 1] = "'"

\* C26: the splitter returns for every script what the scan without the
\* doubled-single-quote branch returns.
C26_DoubledQuoteBranchRedundant ==
    pc = "done" => statements = ToggleOnlySplit(sql)

\* a script with a doubled quote, a ';' and more than one statement was split
C26_Witness ==
    /\ pc = "done"
    /\ HasDoubledQuote(cleanSql)
    /\ Len(statements) >= 2
    /\ \E k \in 1..Len(statements) : HasDoubledQuote(statements[k])

(* -------------------------------- C27 --------------------------------- *)

\* C27: on a script without a single or a double quote the quote-aware
\* splitter returns what the plain copies of migrateCommand and of the
\* Cloudflare deploy return.
C27_QuoteFreeSameAsPlain ==
    (pc = "done" /\ QuoteFree(sql))
    => /\ statements = PlainSplitSqlStatements(sql)
       /\ statements = CloudflareStatements(sql)

\* a quote-free script with a comment line and two statements was split
C27_Witness ==
    /\ pc = "done"
    /\ QuoteFree(sql)
    /\ Len(statements) >= 2
    /\ cleanSql # sql
    /\ \E k \in 1..Len(sql) : sql[k] = "-"

(* -------------------------------- C28 --------------------------------- *)

\* C28: the statements of schema.sql and seed.sql joined by a newline, as
\* setupTursoDatabase splits them, are the statements of schema.sql followed
\* by the statements of seed.sql, as newCommand splits them.
C28_JoinedSplitIsSeparateSplits ==
    (proc.pc = "tursoStatement")
    => proc.statements = SplitSqlStatements(world.schema) \o SplitSqlStatements(world.seed)

(* -------------------------------- C29 --------------------------------- *)

\* C29: when a first deployment has reached saveDeploymentInfo for a
\* database that bit2 created, in this run or in a run before, every
\* statement of schema.sql and seed.sql has been executed on that database.
C29_CreatedDatabaseIsMigrated ==
    (proc.saved /\ world.database.createdByBit2)
    => world.database.executed = DeployStatements

(* -------------------------------- C30 --------------------------------- *)

\* C30: once migrateCommand has ended, none of its temporary files exists,
\* whether the execution of the file succeeded or failed.
C30_NoTemporaryFileLeft ==
    (exitCode # "running") => world.files = {}

====
